---------------------------- MODULE Spec2Model ----------------------------
(***************************************************************************)
(* Model of the chat edge functions: the persisting /chat-text handler     *)
(* (session resolution, user-message insert, upstream completion call,     *)
(* SSE relay with accumulation, fallback stream) and the /chat-image       *)
(* handler (session resolution, user-message insert, retrying image call), *)
(* over the two-table conversation store.                                  *)
(*                                                                         *)
(* Text is a sequence of symbols.  A symbol is one character (" ", "\n",   *)
(* "a") or an indivisible run of characters that holds no separator        *)
(* ("data:", "{c", "[DO").  Splitting, trimming, prefix tests and parsing  *)
(* work on these sequences the way the string methods work on characters.  *)
(***************************************************************************)
EXTENDS Integers, Sequences, FiniteSets, TLC

(***************************************************************************)
(* Bounds of the model.                                                    *)
(***************************************************************************)
\* longest upstream event sequence a request's completion stream is drawn from
MaxEvents == 3

\* the two request slots; the second one is used by the concurrent runs
Reqs == {1, 2}

(***************************************************************************)
(* String helpers (JavaScript String methods on symbol sequences).         *)
(***************************************************************************)
SP == " "
NL == "\n"

Min(a, b) == IF a < b THEN a ELSE b

\* String.prototype.substring(0, n)
Substring0(s, n) == SubSeq(s, 1, Min(n, Len(s)))

\* String.prototype.startsWith(p)
StartsWith(s, p) == Len(s) >= Len(p) /\ SubSeq(s, 1, Len(p)) = p

\* String.prototype.slice(n)
Slice(s, n) == SubSeq(s, n + 1, Len(s))

\* white space removed by String.prototype.trim()
IsSpace(c) == c \in {SP, NL}

RECURSIVE TrimLeft(_)
TrimLeft(s) ==
  IF s # <<>> /\ IsSpace(Head(s)) THEN TrimLeft(Tail(s)) ELSE s

RECURSIVE TrimRight(_)
TrimRight(s) ==
  IF s # <<>> /\ IsSpace(s[Len(s)]) THEN TrimRight(SubSeq(s, 1, Len(s) - 1)) ELSE s

\* String.prototype.trim()
Trim(s) == TrimRight(TrimLeft(s))

\* index of the first occurrence of symbol c in s, 0 when there is none
RECURSIVE IndexOf(_, _, _)
IndexOf(s, c, i) ==
  IF i > Len(s) THEN 0
  ELSE IF s[i] = c THEN i
  ELSE IndexOf(s, c, i + 1)

\* String.prototype.split(c): the pieces between the occurrences of c,
\* empty pieces kept, always at least one piece
RECURSIVE Split(_, _)
Split(s, c) ==
  LET k == IndexOf(s, c, 1)
  IN  IF k = 0 THEN <<s>>
      ELSE <<SubSeq(s, 1, k - 1)>> \o Split(SubSeq(s, k + 1, Len(s)), c)

\* concatenation of a sequence of strings
RECURSIVE Concat(_)
Concat(ss) == IF ss = <<>> THEN <<>> ELSE Head(ss) \o Concat(Tail(ss))

\* s is a prefix of t
IsPrefix(s, t) == Len(s) =< Len(t) /\ SubSeq(t, 1, Len(s)) = s


(***************************************************************************)
(* The SSE wire format of the upstream completion stream and its decoding. *)
(***************************************************************************)
\* the literal line prefix 'data: ' (six characters, one symbol here)
DataPrefix == <<"data: ">>

\* the terminal payload '[DONE]'
DoneToken == <<"[DONE]">>

\* characters a delta's content is made of
ContentChars == {"a", "b", SP}

\* the upstream events a completion stream is made of: a content delta, a
\* JSON object without choices[0].delta.content, a payload that is not
\* JSON, and the terminal marker
DeltaEv(c) == [kind |-> "delta", content |-> c]
DoneEv == [kind |-> "done", content |-> <<>>]
JunkEv == [kind |-> "junk", content |-> <<>>]
NoFieldEv == [kind |-> "nofield", content |-> <<>>]
UpEvents == {DeltaEv(<<"a">>), DeltaEv(<<"b">>), DoneEv}

\* streams with a payload that is not JSON or an object that lacks the
\* content field, before and after a delta, with and without [DONE]
MalformedStreams ==
  { <<JunkEv, DeltaEv(<<"a">>), DoneEv>>, <<DeltaEv(<<"a">>), JunkEv, DoneEv>>,
    <<NoFieldEv, DeltaEv(<<"a">>), DoneEv>>, <<DeltaEv(<<"a">>), NoFieldEv, DoneEv>>,
    <<JunkEv, NoFieldEv>>, <<DeltaEv(<<"a">>), JunkEv>> }

\* the payload of one upstream event:
\* {"choices":[{"delta":{"content":"<c>"}}]} is written "{c" <c> "c}"
Payload(e) ==
  CASE e.kind = "delta"   -> <<"{c">> \o e.content \o <<"c}">>
    [] e.kind = "done"    -> DoneToken
    [] e.kind = "junk"    -> <<"not-json">>
    [] e.kind = "nofield" -> <<"{}">>

\* one upstream frame: data: <payload>\n\n
EncodeEvent(e) == DataPrefix \o Payload(e) \o <<NL, NL>>

RECURSIVE EncodeStream(_)
EncodeStream(evs) ==
  IF evs = <<>> THEN <<>> ELSE EncodeEvent(Head(evs)) \o EncodeStream(Tail(evs))

\* JSON.parse(data) followed by parsed.choices?.[0]?.delta?.content:
\* ok is FALSE when JSON.parse throws; content is <<>> when the field is
\* missing or the empty string (both are falsy)
ParseDelta(data) ==
  IF /\ Len(data) >= 2
     /\ data[1] = "{c"
     /\ data[Len(data)] = "c}"
     /\ \A i \in 2..(Len(data) - 1) : data[i] \in ContentChars
  THEN [ok |-> TRUE, content |-> SubSeq(data, 2, Len(data) - 1)]
  ELSE IF data = <<"{}">>
  THEN [ok |-> TRUE, content |-> <<>>]
  ELSE [ok |-> FALSE, content |-> <<>>]

\* downstream frames: data: {"content": <text>}\n\n and data: [DONE]\n\n
ContentFrame(c) == [kind |-> "content", content |-> c]
DoneFrame == [kind |-> "done", content |-> <<>>]

\* mutant: a payload that does not parse is forwarded as it is
OnInvalidJson_ForwardsRaw(st, data) ==
  [st EXCEPT !.acc = st.acc \o data, !.out = Append(st.out, [kind |-> "content", content |-> data])]

\* the catch around JSON.parse: the line is skipped
OnInvalidJson(st, data) == st

\* a content delta: accumulate, then enqueue; an enqueue on a stream that is
\* no longer readable throws inside the same try block, after the accumulate
OnContent(st, content, canEnqueue) ==
  [st EXCEPT !.acc = st.acc \o content,
             !.out = IF canEnqueue THEN Append(st.out, ContentFrame(content))
                     ELSE st.out]

\* the body of the for loop over the lines of one chunk, up to the first
\* [DONE] line (which returns from the loop); st = [acc, out, done]
RECURSIVE ProcessLines(_, _, _)
ProcessLines(lines, st, canEnqueue) ==
  IF lines = <<>> THEN st
  ELSE
    LET line == Head(lines)
        data == Trim(Slice(line, Len(DataPrefix)))
        p    == ParseDelta(data)
    IN  IF ~StartsWith(line, DataPrefix)
        THEN ProcessLines(Tail(lines), st, canEnqueue)
        ELSE IF data = DoneToken
        THEN [st EXCEPT !.done = TRUE]
        ELSE IF data = <<>>
        THEN ProcessLines(Tail(lines), st, canEnqueue)
        ELSE IF ~p.ok
        THEN ProcessLines(Tail(lines), OnInvalidJson(st, data), canEnqueue)
        ELSE IF p.content # <<>>
        THEN ProcessLines(Tail(lines), OnContent(st, p.content, canEnqueue), canEnqueue)
        ELSE ProcessLines(Tail(lines), st, canEnqueue)

\* chunk.split('\n') and the loop over the lines
ProcessChunk(chunk, acc, canEnqueue) ==
  ProcessLines(Split(chunk, NL), [acc |-> acc, out |-> <<>>, done |-> FALSE], canEnqueue)


(***************************************************************************)
(* The relay of the handler that does not persist: the same loop without   *)
(* the accumulator and without the insert.                                 *)
(***************************************************************************)
\* the body of its for loop over the lines of one chunk; st = [out, done]
RECURSIVE BasicLines(_, _, _)
BasicLines(lines, st, canEnqueue) ==
  IF lines = <<>> THEN st
  ELSE
    LET line == Head(lines)
        data == Trim(Slice(line, Len(DataPrefix)))
        p    == ParseDelta(data)
    IN  IF ~StartsWith(line, DataPrefix)
        THEN BasicLines(Tail(lines), st, canEnqueue)
        ELSE IF data = DoneToken
        THEN [st EXCEPT !.done = TRUE]
        ELSE IF data # <<>> /\ p.ok /\ p.content # <<>> /\ canEnqueue
        THEN BasicLines(Tail(lines),
                        [st EXCEPT !.out = Append(st.out, ContentFrame(p.content))],
                        canEnqueue)
        ELSE BasicLines(Tail(lines), st, canEnqueue)

\* chunk.split('\n') and the loop over the lines
BasicChunk(chunk, canEnqueue) ==
  BasicLines(Split(chunk, NL), [out |-> <<>>, done |-> FALSE], canEnqueue)

(***************************************************************************)
(* Requests, identifiers and the texts the handlers build.                 *)
(***************************************************************************)
\* no chatId in the request body (undefined or the empty string)
NoId == ""

\* a chatId that is not a UUID: the id columns are of type UUID, so every
\* store operation that carries it fails
BadId == "not-a-uuid"

\* the session that exists before the requests, and an unknown one
KnownId == "s1"
UnknownId == "s2"
ChatIds == {NoId, KnownId, UnknownId, BadId}

\* crypto.randomUUID() of request r
RandomUUID(r) == IF r = 1 THEN "u1" ELSE "u2"

\* gen_random_uuid() of the store for a session inserted by request r
StoreUUID(r) == IF r = 1 THEN "g1" ELSE "g2"

ValidUuid(id) == id # BadId /\ id # NoId

\* message.substring(0, 50)
TitleLen == 50
\* mutant: the title is the whole prompt
Title_Whole(message) == message

Title(message) == Substring0(message, TitleLen)

\* a prompt of one character more than a title holds
LongMessage == [i \in 1..(TitleLen + 1) |-> "x"]

\* the prompts of the requests
Messages == {<<"p", "i", "n", "g">>, <<"a", SP, SP, "b">>, <<>>, LongMessage}

\* the shapes of a request: well formed, wrong method, body that is not
\* JSON, body whose message is not a string
Shapes == {"ok", "badmethod", "badjson", "nomsg"}

\* String.prototype.includes on an error message (a sequence of phrases)
Includes(msg, phrase) == \E i \in 1..Len(msg) : msg[i] = phrase

\* error.message of the rejection of a fetch() whose signal was aborted
AbortMessage == <<"The signal has been aborted">>

\* the completion call is answered 2xx
OkAnswer == <<"200">>

\* error.message of a failed completion call: a DNS failure, the abort of
\* the 30 s timer, a refused connection, and the non-2xx answers
\* `OpenAI API Error: <status> <statusText> - <body>`, one of them with a
\* body that speaks of a timeout
FetchFailures ==
  { <<"dns error">>,
    AbortMessage,
    <<"connection refused">>,
    <<"OpenAI API Error:", "401", "Unauthorized">>,
    <<"OpenAI API Error:", "401", "Unauthorized", "timeout">>,
    <<"OpenAI API Error:", "500">> }

\* userFriendlyMessage: the first matching class (each text by its first and
\* last word)
UserFriendlyMessage(errorMessage) ==
  IF Includes(errorMessage, "dns error") \/ Includes(errorMessage, "failed to lookup address")
  THEN <<"Network", SP, "moment.">>
  ELSE IF Includes(errorMessage, "timeout") \/ Includes(errorMessage, "AbortError")
  THEN <<"Request", SP, "again.">>
  ELSE IF Includes(errorMessage, "401") \/ Includes(errorMessage, "Unauthorized")
  THEN <<"API", SP, "configuration.">>
  ELSE <<"OpenAI", SP, "later.">>

\* fallbackResponse
FallbackResponse(errorMessage, message) ==
  UserFriendlyMessage(errorMessage)
    \o <<SP, "For", SP, "question:", SP, "\"">> \o message \o <<"\"", ".">>

\* mockResponse of the handler without an API key
MockResponse(message) ==
  <<"No", SP, "for:", SP, "\"">> \o message \o <<"\"", ".", SP, "Please", SP, "variable.">>

(***************************************************************************)
(* State.                                                                  *)
(***************************************************************************)
VARIABLES
  sessions,    \* table chat_sessions: id -> row
  messages,    \* table messages: the rows in insertion order
  hasKey,      \* OPENAI_API_KEY is set
  kind,        \* per request: "none", "text" (/chat-text), "image" (/chat-image)
               \* or "history" (/get-chat-history)
  body,        \* per request: [shape, message, chatId] as sent by the client
  pc,          \* per request: where the handler is suspended
  chatId,      \* per request: the handler's chatId
  userErr,     \* per request: userMessageError is set
  upEvents,    \* per request: the events the upstream body is made of
  upPos,       \* per request: symbols of the upstream body read so far
  acc,         \* per request: accumulatedResponse
  down,        \* per request: the frames enqueued on the response stream
  downState,   \* per request: "none", "readable", "closed", "errored", "cancelled"
  words,       \* per request: the words the mock or fallback stream has still to emit
  route,       \* per request: "none", "relay", "fallback", "mock"
  status,      \* per request: HTTP status of the response, 0 while there is none
  attempt,     \* per request (/chat-image): attempt of attemptImageGeneration
  tryPrompt,   \* per request (/chat-image): promptToTry
  resp,        \* per request (/chat-image): the JSON body of the response
  upCalls,     \* per request (history): upstream calls issued
  sawDone,     \* per request (history): the decoder has matched [DONE]
  sessErr,     \* per request: sessionError or updateError is set
  now,         \* the clock, in ticks
  after,       \* per request: k if the client sends this request after the
               \* response of request k is complete, -k if it sends it while
               \* the upstream stream of request k is relayed, 0 if any time
  openaiError, \* per request: message of the error caught around the completion call
  listing,     \* per request (/get-chat-history): the rows of the response
  ui,          \* the page: [on, chatId, isLoading, rateLimited, awaiting]: its React
               \* state chatId, isLoading and rateLimited, and the request whose
               \* handleSubmit has not returned (0 if none)
  upAnswer,    \* per request: what the completion call meets: OkAnswer (a 2xx
               \* answer within 30 s), AbortMessage (no answer within 30 s) or
               \* the message of another failure
  rateLimitMap,\* /chat-image: clientId -> [count, resetTime], of the isolate
  rateAnswer,  \* /chat-image: [client, ok] of the last call of checkRateLimit
  imageAnswers, \* per request (history): the answers of the image API so far
  proxy        \* the image proxy: [pc, method, url, status, fetched, served], fetched
               \* being the hosts that its fetch has contacted (history)

vars ==
  <<sessions, messages, hasKey, kind, body, pc, chatId, userErr, upEvents, upPos,
    acc, down, downState, words, route, status, attempt, tryPrompt, resp, upCalls,
    sawDone, sessErr, now, after, openaiError, listing, ui, upAnswer,
    rateLimitMap, rateAnswer, imageAnswers, proxy>>

storeVars == <<sessions, messages>>
inputVars == <<hasKey, kind, body, upEvents, after, upAnswer>>
relayVars == <<upPos, acc, down, downState, words, route, sawDone>>
imageVars == <<attempt, tryPrompt, resp, imageAnswers>>
rateVars == <<rateLimitMap, rateAnswer>>

\* the upstream response body of request r
UpBytes(r) == EncodeStream(upEvents[r])

\* event sequences of length at most MaxEvents
RECURSIVE SeqsUpTo(_, _)
SeqsUpTo(S, n) ==
  IF n = 0 THEN {<<>>}
  ELSE LET shorter == SeqsUpTo(S, n - 1)
       IN  shorter \cup {Append(q, x) : q \in {t \in shorter : Len(t) = n - 1}, x \in S}

OkBodies == [shape : {"ok"}, message : Messages, chatId : ChatIds]

\* a request that fails validation
BadBodies == [shape : Shapes \ {"ok"}, message : {<<"p", "i", "n", "g">>}, chatId : {NoId}]

\* the requests of one handler run, with their environment: the rejected
\* ones; every prompt and chatId without an API key; every prompt and chatId
\* with one upstream stream; one prompt and chatId with every upstream
\* stream; every prompt and chatId with every failure of the completion call
TextInputs ==
  [hasKey : {TRUE}, body : BadBodies, evs : {<<>>}, answer : {OkAnswer}]
    \cup [hasKey : {FALSE}, body : OkBodies, evs : {<<>>}, answer : {OkAnswer}]
    \cup [hasKey : {TRUE}, body : OkBodies,
          evs : {<<DeltaEv(<<"a">>), DeltaEv(<<"b">>), DoneEv>>}, answer : {OkAnswer}]
    \cup [hasKey : {TRUE},
          body : {[shape |-> "ok", message |-> <<"p", "i", "n", "g">>, chatId |-> UnknownId]},
          evs : SeqsUpTo(UpEvents, MaxEvents) \cup MalformedStreams, answer : {OkAnswer}]
    \cup [hasKey : {TRUE}, body : OkBodies, evs : {<<>>}, answer : FetchFailures]

\* a row of chat_sessions created at time t (created_at and updated_at
\* default to now())
NewSession(title, t) == [title |-> title, created_at |-> t, updated_at |-> t]

\* the store before the requests: one session, created before the clock
\* started, and no messages
InitStore ==
  /\ sessions = [id \in {KnownId} |-> NewSession(<<"o", "l", "d">>, 0)]
  /\ messages = <<>>

\* the error field of a response without one
NoError == <<>>

\* no JSON response yet
NoResp ==
  [success |-> FALSE, error |-> NoError, imageUrl |-> <<>>, revisedPrompt |-> <<>>,
   chatId |-> NoId, attemptsUsed |-> 0]

(***************************************************************************)
(* The rate limiter of /chat-image: a fixed window per client id, kept in  *)
(* the memory of the isolate.  The clock counts milliseconds.              *)
(***************************************************************************)
\* RATE_LIMIT_WINDOW
RateLimitWindow == 60000
\* RATE_LIMIT_MAX_REQUESTS
RateLimitMaxRequests == 10

\* x-forwarded-for || x-real-ip || "unknown"
Clients == {"unknown", "10.0.0.1"}

\* the clientId of request r: a request without the two headers
ClientId(r) == "unknown"

\* new Map()
NoWindows == [c \in {} |-> [count |-> 0, resetTime |-> 0]]

\* the map after ten requests of the client "unknown" at time 0
FullWindow ==
  [c \in {"unknown"} |-> [count |-> RateLimitMaxRequests, resetTime |-> RateLimitWindow]]

\* checkRateLimit has not been called
NoRateAnswer == [client |-> "", ok |-> TRUE]

\* !clientData || now > clientData.resetTime does not hold
WindowOpen(map, clientId, t) == clientId \in DOMAIN map /\ ~(t > map[clientId].resetTime)

\* mutant: the window is full only when the count exceeds the maximum
CheckRateLimit_OneMore(map, clientId, t) ==
  IF ~WindowOpen(map, clientId, t)
  THEN [ok |-> TRUE,
        map |-> [c \in DOMAIN map \cup {clientId} |->
                   IF c = clientId THEN [count |-> 1, resetTime |-> t + RateLimitWindow]
                   ELSE map[c]]]
  ELSE IF map[clientId].count > RateLimitMaxRequests
  THEN [ok |-> FALSE, map |-> map]
  ELSE [ok |-> TRUE, map |-> [map EXCEPT ![clientId].count = @ + 1]]

\* checkRateLimit(clientId) at time t: its result and the map it leaves
CheckRateLimit(map, clientId, t) ==
  IF ~WindowOpen(map, clientId, t)
  THEN [ok |-> TRUE,
        map |-> [c \in DOMAIN map \cup {clientId} |->
                   IF c = clientId THEN [count |-> 1, resetTime |-> t + RateLimitWindow]
                   ELSE map[c]]]
  ELSE IF map[clientId].count >= RateLimitMaxRequests
  THEN [ok |-> FALSE, map |-> map]
  ELSE [ok |-> TRUE, map |-> [map EXCEPT ![clientId].count = @ + 1]]

\* searchParams.get('url') of the image proxy is null or empty
NoUrl == [scheme |-> "", host |-> <<>>, rest |-> <<>>]

\* the image proxy has served nothing
ProxyIdle ==
  [pc |-> "idle", method |-> "", url |-> NoUrl, status |-> 0, fetched |-> {}, served |-> 0]

InitLocals ==
  /\ pc = [r \in Reqs |-> "idle"]
  /\ proxy = ProxyIdle
  /\ chatId = [r \in Reqs |-> NoId]
  /\ userErr = [r \in Reqs |-> FALSE]
  /\ sessErr = [r \in Reqs |-> FALSE]
  /\ now = 1
  /\ upPos = [r \in Reqs |-> 0]
  /\ acc = [r \in Reqs |-> <<>>]
  /\ down = [r \in Reqs |-> <<>>]
  /\ downState = [r \in Reqs |-> "none"]
  /\ words = [r \in Reqs |-> <<>>]
  /\ route = [r \in Reqs |-> "none"]
  /\ status = [r \in Reqs |-> 0]
  /\ attempt = [r \in Reqs |-> 0]
  /\ imageAnswers = [r \in Reqs |-> <<>>]
  /\ tryPrompt = [r \in Reqs |-> <<>>]
  /\ resp = [r \in Reqs |-> NoResp]
  /\ upCalls = [r \in Reqs |-> 0]
  /\ sawDone = [r \in Reqs |-> FALSE]
  /\ openaiError = [r \in Reqs |-> NoError]
  /\ listing = [r \in Reqs |-> <<>>]
  /\ rateAnswer = NoRateAnswer

\* originalPrompt.length > 1000
MaxPromptLen == 1000

\* body.chatId.length > 100
MaxChatIdLen == 100

\* a chatId of 101 characters; the other ids have the 36 of a UUID
LongId == "id of 101 characters"
IdLen(id) == IF id = LongId THEN MaxChatIdLen + 1 ELSE 36

\* a prompt of 1001 characters
LongPrompt == [i \in 1..(MaxPromptLen + 1) |-> "x"]

\* requests only /chat-image tells apart: an over-long prompt, a short one,
\* a banned word, an over-long chatId, a word of the replacement table, a word that
\* contains "art"
ImageBodies ==
  [shape : {"ok"}, message : {LongPrompt, <<"h", "i">>, <<"a", SP, "nude">>}, chatId : {NoId}]
    \cup [shape : {"ok"}, message : {<<"p", "i", "n", "g">>}, chatId : {LongId}]
    \cup [shape : {"ok"}, message : {<<"a", SP, "gun">>, <<"smart", SP, "dog">>},
          chatId : {UnknownId}]

\* the requests of one /chat-image run
ImageInputs ==
  [hasKey : BOOLEAN, body : BadBodies \cup OkBodies \cup ImageBodies, evs : {<<>>},
   answer : {OkAnswer}]

\* the requests of one /get-chat-history run (the message is not read)
HistoryBodies == [shape : {"ok", "badmethod", "badjson"}, message : {<<>>}, chatId : ChatIds]

HistoryInputs == [hasKey : {FALSE}, body : HistoryBodies, evs : {<<>>}, answer : {OkAnswer}]

\* the page is not in use: the requests come from another client
UiOff ==
  [on |-> FALSE, chatId |-> NoId, isLoading |-> FALSE, rateLimited |-> FALSE, awaiting |-> 0]

\* the page after loading: chatId is null, isLoading and rateLimited false
UiLoaded ==
  [on |-> TRUE, chatId |-> NoId, isLoading |-> FALSE, rateLimited |-> FALSE, awaiting |-> 0]

\* one request, to /chat-text, /chat-image or /get-chat-history, sent by a
\* client of the API
InitOne ==
  /\ ui = UiOff
  /\ \E k \in {"text", "image", "history"} :
       /\ kind = [r \in Reqs |-> IF r = 1 THEN k ELSE "none"]
       /\ \E in \in CASE k = "text" -> TextInputs
                      [] k = "image" -> ImageInputs
                      [] OTHER -> HistoryInputs :
            /\ hasKey = in.hasKey
            /\ body = [r \in Reqs |-> in.body]
            /\ upEvents = [r \in Reqs |-> IF r = 1 THEN in.evs ELSE <<>>]
            /\ upAnswer = [r \in Reqs |-> in.answer]
  /\ after = [r \in Reqs |-> 0]

\* two submits of the page in text mode, on a deployment without API key
InitPage ==
  /\ ui = UiLoaded
  /\ \E mode \in {"text", "image"} : kind = [r \in Reqs |-> mode]
  /\ hasKey = FALSE
  /\ body = [r \in Reqs |-> [shape |-> "ok", message |-> <<"p", "i", "n", "g">>, chatId |-> NoId]]
  /\ upEvents = [r \in Reqs |-> <<>>]
  /\ upAnswer = [r \in Reqs |-> OkAnswer]
  /\ after = [r \in Reqs |-> r - 1]

\* the limiter of a /chat-image request is fresh or has a full window
Init ==
  /\ InitStore
  /\ InitOne \/ InitPage
  /\ InitLocals
  /\ rateLimitMap \in IF kind[1] = "image" THEN {NoWindows, FullWindow} ELSE {NoWindows}


(***************************************************************************)
(* The store operations.  Every operation can fail (fault); an insert also *)
(* fails on a violated constraint.                                         *)
(***************************************************************************)
\* select("id").eq("id", id).single() returns the row
SelectFinds(id, fault) == ~fault /\ ValidUuid(id) /\ id \in DOMAIN sessions

\* mutant: the chat_sessions table without the primary key on id
SessionInsertOk_NoPrimaryKey(id, fault) == ~fault /\ ValidUuid(id)

\* insert into chat_sessions succeeds: primary key
SessionInsertOk(id, fault) == ~fault /\ ValidUuid(id) /\ id \notin DOMAIN sessions

\* mutant: the messages table without the foreign key
MessageInsertOk_NoForeignKey(row, fault) == ~fault

\* insert into messages succeeds: chat_id REFERENCES chat_sessions(id)
MessageInsertOk(row, fault) ==
  ~fault /\ ValidUuid(row.chat_id) /\ row.chat_id \in DOMAIN sessions

\* the prompt the handler of request r works on
Prompt(r) == IF kind[r] = "image" THEN Trim(body[r].message) ELSE body[r].message

UserRow(r) ==
  [chat_id |-> chatId[r], role |-> "user", content |-> Prompt(r),
   type |-> kind[r], image_url |-> <<>>, created_at |-> now, by |-> r]

\* mutant: one accumulator for all requests
AssistantTextRow_SharedAccumulator(r) ==
  [chat_id |-> chatId[r], role |-> "assistant", content |-> acc[1] \o acc[2],
   type |-> "text", image_url |-> <<>>, created_at |-> now, by |-> r]

\* the assistant row of the relay: the accumulated response
AssistantTextRow(r) ==
  [chat_id |-> chatId[r], role |-> "assistant", content |-> acc[r],
   type |-> "text", image_url |-> <<>>, created_at |-> now, by |-> r]

(***************************************************************************)
(* The client.                                                             *)
(***************************************************************************)
\* the response of request r is complete: the stream was closed, or the
\* JSON response returned
Finished(r) == pc[r] \in {"closed", "rejected", "responded"}

\* the client sends request r, after the response it waits for (if any),
\* and the handler is invoked
Arrive(r) ==
  /\ ~ui.on
  /\ pc[r] = "idle" /\ kind[r] # "none"
  /\ IF after[r] = 0 THEN TRUE
     ELSE IF after[r] > 0 THEN Finished(after[r])
     ELSE pc[0 - after[r]] = "read"
  /\ pc' = [pc EXCEPT ![r] = "start"]
  /\ UNCHANGED <<storeVars, inputVars, chatId, userErr, sessErr, relayVars, status,
                 upCalls, now, imageVars>>
  /\ UNCHANGED <<openaiError, listing, ui, rateVars, proxy>>

\* crypto.randomUUID() of the page at the submit of request r
ClientUUID(r) == IF r = 1 THEN "c1" ELSE "c2"

\* mutant: handleSubmit without setChatId(currentChatId)
Submit_NoSetChatId(r) ==
  /\ ui.on /\ ~ui.isLoading /\ ~ui.rateLimited
  /\ pc[r] = "idle" /\ kind[r] # "none"
  /\ IF after[r] = 0 THEN TRUE ELSE Finished(after[r])
  /\ LET currentChatId == IF ui.chatId # NoId THEN ui.chatId ELSE ClientUUID(r)
     IN  body' = [body EXCEPT ![r].chatId = currentChatId]
  /\ ui' = [ui EXCEPT !.isLoading = TRUE, !.awaiting = r]
  /\ pc' = [pc EXCEPT ![r] = "start"]
  /\ UNCHANGED <<storeVars, hasKey, kind, upEvents, after, upAnswer, chatId, userErr, sessErr,
                 relayVars, status, upCalls, now, imageVars, openaiError, listing, rateVars, proxy>>

\* handleSubmit of the page, possible while isLoading is false (the
\* response of the submit before is complete): the request carries
\* currentChatId = chatId || crypto.randomUUID(), which becomes the chatId
\* of the page
Submit(r) ==
  /\ ui.on /\ ~ui.isLoading /\ ~ui.rateLimited
  /\ pc[r] = "idle" /\ kind[r] # "none"
  /\ IF after[r] = 0 THEN TRUE ELSE Finished(after[r])
  /\ LET currentChatId == IF ui.chatId # NoId THEN ui.chatId ELSE ClientUUID(r)
     IN  /\ body' = [body EXCEPT ![r].chatId = currentChatId]
         /\ ui' = [ui EXCEPT !.chatId = currentChatId, !.isLoading = TRUE, !.awaiting = r]
  /\ pc' = [pc EXCEPT ![r] = "start"]
  /\ UNCHANGED <<storeVars, hasKey, kind, upEvents, after, upAnswer, chatId, userErr, sessErr,
                 relayVars, status, upCalls, now, imageVars, openaiError, listing, rateVars, proxy>>

\* startNewChat of the page: setChatId(null)
StartNewChat ==
  /\ ui.on /\ ui.chatId # NoId
  /\ ui' = [ui EXCEPT !.chatId = NoId]
  /\ UNCHANGED <<storeVars, inputVars, pc, chatId, userErr, sessErr, relayVars, status,
                 upCalls, now, imageVars, openaiError, listing, rateVars, proxy>>

\* what the rest of handleSubmit meets in the response to request r:
\*   "done"    a line data: [DONE] of the /chat-text stream
\*   "eof"     the /chat-text stream closed without such a line
\*   "rate"    status 429
\*   "catch"   another status that is not ok, a stream that errored, or a
\*             /chat-image body without success and imageUrl
\*   "image"   a /chat-image body with success and imageUrl
\*   "pending" nothing yet
Outcome(r) ==
  IF kind[r] = "text"
  THEN IF pc[r] = "rejected" THEN (IF status[r] = 429 THEN "rate" ELSE "catch")
       ELSE IF \E k \in DOMAIN down[r] : down[r][k] = DoneFrame THEN "done"
       ELSE IF downState[r] = "closed" THEN "eof"
       ELSE IF downState[r] = "errored" THEN "catch"
       ELSE "pending"
  ELSE IF pc[r] \notin {"rejected", "responded"} THEN "pending"
       ELSE IF status[r] = 429 THEN "rate"
       ELSE IF status[r] # 200 THEN "catch"
       ELSE IF resp[r].success /\ resp[r].imageUrl # <<>> THEN "image"
       ELSE "catch"

\* the state of the page when handleSubmit returns: setIsLoading(false) at
\* the [DONE] line, in the catch of the text mode and after the try of the
\* image mode; the 429 branches set rateLimited and return; the end of the
\* stream breaks the read loop
AfterOutcome(u, outcome) ==
  [u EXCEPT !.awaiting = 0,
            !.isLoading = IF outcome \in {"done", "catch", "image"} THEN FALSE ELSE @,
            !.rateLimited = IF outcome = "rate" THEN TRUE ELSE @]

\* the rest of handleSubmit for request r, once the response has come
PageResponse(r) ==
  /\ ui.on /\ ui.awaiting = r
  /\ Outcome(r) # "pending"
  /\ ui' = AfterOutcome(ui, Outcome(r))
  /\ UNCHANGED <<storeVars, inputVars, pc, chatId, userErr, sessErr, relayVars, status,
                 upCalls, now, imageVars, openaiError, listing, rateVars, proxy>>

\* the timer of the 429 branch, a minute later: setRateLimited(false)
Cooldown ==
  /\ ui.on /\ ui.rateLimited /\ ui.awaiting = 0
  /\ ui' = [ui EXCEPT !.rateLimited = FALSE]
  /\ UNCHANGED <<storeVars, inputVars, pc, chatId, userErr, sessErr, relayVars, status,
                 upCalls, now, imageVars, openaiError, listing, rateVars, proxy>>

(***************************************************************************)
(* /chat-text: validation, session resolution, user message.               *)
(***************************************************************************)
\* the message of the Error thrown by the method check and the body parsing
\* of /chat-text; NoError if the request passes (any string is a message)
TextValidationError(b) ==
  IF b.shape = "badmethod" THEN <<"Method", "not allowed">>
  ELSE IF b.shape = "badjson" THEN <<"Invalid JSON in request body">>
  ELSE IF b.shape = "nomsg" THEN <<"Message must be a string">>
  ELSE NoError

\* errorResponse of the outer catch of /chat-text
TextErrorResp(error) ==
  [success |-> FALSE, error |-> error, imageUrl |-> <<>>, revisedPrompt |-> <<>>,
   chatId |-> NoId, attemptsUsed |-> 0]

\* method check and body parsing; every throw ends in the outer catch (400)
TextValidate(r) ==
  /\ kind[r] = "text" /\ pc[r] = "start"
  /\ LET error == TextValidationError(body[r])
     IN  IF error = NoError
         THEN /\ chatId' = [chatId EXCEPT ![r] =
                              IF body[r].chatId # NoId THEN body[r].chatId ELSE RandomUUID(r)]
              /\ pc' = [pc EXCEPT ![r] = "select"]
              /\ UNCHANGED <<status, resp>>
         ELSE /\ status' = [status EXCEPT ![r] = 400]
              /\ resp' = [resp EXCEPT ![r] = TextErrorResp(error)]
              /\ pc' = [pc EXCEPT ![r] = "rejected"]
              /\ UNCHANGED chatId
  /\ UNCHANGED <<storeVars, inputVars, userErr, sessErr, upPos, acc, down, downState, words,
                 route, upCalls, now, sawDone, attempt, imageAnswers, tryPrompt>>
  /\ UNCHANGED <<openaiError, listing, ui, rateVars, proxy>>

\* the first store operation of the session resolution: without a chatId an
\* insert that lets the store choose the id, with one a lookup
SessionLookup(r) ==
  /\ pc[r] = "select"
  /\ \E fault \in BOOLEAN :
       IF chatId[r] = NoId
       THEN /\ sessions' = IF fault THEN sessions
                           ELSE [id \in DOMAIN sessions \cup {StoreUUID(r)} |->
                                   IF id = StoreUUID(r) THEN NewSession(Title(Prompt(r)), now)
                                   ELSE sessions[id]]
            /\ chatId' = [chatId EXCEPT ![r] = IF fault THEN RandomUUID(r) ELSE StoreUUID(r)]
            /\ sessErr' = [sessErr EXCEPT ![r] = fault]
            /\ pc' = [pc EXCEPT ![r] = "userInsert"]
       ELSE /\ pc' = [pc EXCEPT ![r] =
                        IF SelectFinds(chatId[r], fault) THEN "sessUpdate" ELSE "sessInsert"]
            /\ UNCHANGED <<sessions, chatId, sessErr>>
  /\ UNCHANGED <<messages, inputVars, userErr, upPos, acc, down, downState, words,
                 route, status, upCalls, now, sawDone, imageVars>>
  /\ UNCHANGED <<openaiError, listing, ui, rateVars, proxy>>

\* session not found: insert one with the caller's id; an error is logged
SessionCreate(r) ==
  /\ pc[r] = "sessInsert"
  /\ \E fault \in BOOLEAN :
       LET ok == SessionInsertOk(chatId[r], fault)
       IN  /\ sessions' = IF ok
                           THEN [id \in DOMAIN sessions \cup {chatId[r]} |->
                                   IF id = chatId[r] THEN NewSession(Title(Prompt(r)), now)
                                   ELSE sessions[id]]
                           ELSE sessions
           /\ sessErr' = [sessErr EXCEPT ![r] = ~ok]
  /\ pc' = [pc EXCEPT ![r] = "userInsert"]
  /\ UNCHANGED <<messages, inputVars, chatId, userErr, upPos, acc, down, downState,
                 words, route, status, upCalls, now, sawDone, imageVars>>
  /\ UNCHANGED <<openaiError, listing, ui, rateVars, proxy>>

\* mutant: the update of a found session also writes the title
SessionTouch_Retitles(r) ==
  /\ pc[r] = "sessUpdate"
  /\ \E fault \in BOOLEAN :
       /\ sessions' = IF ~fault /\ chatId[r] \in DOMAIN sessions
                       THEN [sessions EXCEPT ![chatId[r]].updated_at = now,
                                             ![chatId[r]].title = Title(Prompt(r))]
                       ELSE sessions
       /\ sessErr' = [sessErr EXCEPT ![r] = fault]
  /\ pc' = [pc EXCEPT ![r] = "userInsert"]
  /\ UNCHANGED <<messages, inputVars, chatId, userErr, upPos, acc, down, downState,
                 words, route, status, upCalls, now, sawDone, imageVars>>
  /\ UNCHANGED <<openaiError, listing, ui, rateVars, proxy>>

\* mutant: the update of a found session writes no new time
SessionTouch_KeepsTime(r) ==
  /\ pc[r] = "sessUpdate"
  /\ \E fault \in BOOLEAN : sessErr' = [sessErr EXCEPT ![r] = fault]
  /\ pc' = [pc EXCEPT ![r] = "userInsert"]
  /\ UNCHANGED <<storeVars, inputVars, chatId, userErr, upPos, acc, down, downState,
                 words, route, status, upCalls, now, sawDone, imageVars>>
  /\ UNCHANGED <<openaiError, listing, ui, rateVars, proxy>>

\* session found: update updated_at to new Date(); an error is logged
SessionTouch(r) ==
  /\ pc[r] = "sessUpdate"
  /\ \E fault \in BOOLEAN :
       /\ sessions' = IF ~fault /\ chatId[r] \in DOMAIN sessions
                       THEN [sessions EXCEPT ![chatId[r]].updated_at = now]
                       ELSE sessions
       /\ sessErr' = [sessErr EXCEPT ![r] = fault]
  /\ pc' = [pc EXCEPT ![r] = "userInsert"]
  /\ UNCHANGED <<messages, inputVars, chatId, userErr, upPos, acc, down, downState,
                 words, route, status, upCalls, now, sawDone, imageVars>>
  /\ UNCHANGED <<openaiError, listing, ui, rateVars, proxy>>

\* mutant: an error of the user message insert is thrown to the outer catch
UserInsert_Aborts(r) ==
  /\ pc[r] = "userInsert"
  /\ \E fault \in BOOLEAN :
       LET ok == MessageInsertOk(UserRow(r), fault)
       IN  /\ messages' = IF ok THEN Append(messages, UserRow(r)) ELSE messages
           /\ userErr' = [userErr EXCEPT ![r] = ~ok]
           /\ pc' = [pc EXCEPT ![r] = IF ~ok THEN "rejected"
                                      ELSE IF kind[r] = "text" THEN "fetch" ELSE "generate"]
           /\ status' = [status EXCEPT ![r] = IF ok THEN @ ELSE 500]
  /\ UNCHANGED <<sessions, inputVars, chatId, sessErr, upPos, acc, down, downState, words,
                 route, upCalls, now, sawDone, imageVars>>
  /\ UNCHANGED <<openaiError, listing, ui, rateVars, proxy>>

\* mutant: the handler goes on to the upstream call without the insert
UserInsert_Skipped(r) ==
  /\ pc[r] = "userInsert"
  /\ pc' = [pc EXCEPT ![r] = IF kind[r] = "text" THEN "fetch" ELSE "generate"]
  /\ UNCHANGED <<storeVars, inputVars, chatId, userErr, sessErr, relayVars, status, upCalls, now, imageVars>>
  /\ UNCHANGED <<openaiError, listing, ui, rateVars, proxy>>

\* insert the user message; an error is logged and the handler goes on
UserInsert(r) ==
  /\ pc[r] = "userInsert"
  /\ \E fault \in BOOLEAN :
       LET ok == MessageInsertOk(UserRow(r), fault)
       IN  /\ messages' = IF ok THEN Append(messages, UserRow(r)) ELSE messages
           /\ userErr' = [userErr EXCEPT ![r] = ~ok]
  /\ pc' = [pc EXCEPT ![r] = IF kind[r] = "text" THEN "fetch" ELSE "generate"]
  /\ UNCHANGED <<sessions, inputVars, chatId, sessErr, upPos, acc, down, downState, words,
                 route, status, upCalls, now, sawDone, imageVars>>
  /\ UNCHANGED <<openaiError, listing, ui, rateVars, proxy>>


(***************************************************************************)
(* /chat-text: the completion call and the three response streams.  A      *)
(* round trip to the upstream API and a 100 ms timer of a word loop take   *)
(* at least one tick of the clock.                                         *)
(***************************************************************************)
\* a mock or fallback stream starts: the first word is enqueued when the
\* stream is constructed, the others after a timer each
StartWords(r, text, via) ==
  LET ws == Split(text, SP)
  IN  /\ down' = [down EXCEPT ![r] = <<ContentFrame(Head(ws) \o <<SP>>)>>]
      /\ words' = [words EXCEPT ![r] = Tail(ws)]
      /\ downState' = [downState EXCEPT ![r] = "readable"]
      /\ route' = [route EXCEPT ![r] = via]
      /\ status' = [status EXCEPT ![r] = 200]
      /\ pc' = [pc EXCEPT ![r] = "emit"]

\* without an API key: the mock stream, no upstream call
TextMock(r) ==
  /\ pc[r] = "fetch" /\ ~hasKey
  /\ StartWords(r, MockResponse(body[r].message), "mock")
  /\ UNCHANGED <<storeVars, inputVars, chatId, userErr, sessErr, upPos, acc, upCalls, now, sawDone, imageVars>>
  /\ UNCHANGED <<openaiError, listing, ui, rateVars, proxy>>

\* fetch() answers 2xx: the relay stream is constructed and its start()
\* runs up to the first read
FetchOk(r) ==
  /\ pc[r] = "fetch" /\ hasKey
  /\ upAnswer[r] = OkAnswer
  /\ upCalls' = [upCalls EXCEPT ![r] = @ + 1]
  /\ now' = now + 1
  /\ downState' = [downState EXCEPT ![r] = "readable"]
  /\ route' = [route EXCEPT ![r] = "relay"]
  /\ status' = [status EXCEPT ![r] = 200]
  /\ pc' = [pc EXCEPT ![r] = "read"]
  /\ UNCHANGED <<storeVars, inputVars, chatId, userErr, sessErr, upPos, acc, down, words, sawDone, imageVars>>
  /\ UNCHANGED <<openaiError, listing, ui, rateVars, proxy>>

\* the catch around the completion call: the fallback text is built from
\* the message of the error and streamed
CatchOpenaiError(r, errorMessage) ==
  /\ openaiError' = [openaiError EXCEPT ![r] = errorMessage]
  /\ StartWords(r, FallbackResponse(errorMessage, body[r].message), "fallback")

\* fetch() rejects (network) or answers non-2xx
FetchFail(r) ==
  /\ pc[r] = "fetch" /\ hasKey
  /\ upCalls' = [upCalls EXCEPT ![r] = @ + 1]
  /\ now' = now + 1
  /\ upAnswer[r] \in FetchFailures \ {AbortMessage}
  /\ CatchOpenaiError(r, upAnswer[r])
  /\ UNCHANGED <<storeVars, inputVars, chatId, userErr, sessErr, upPos, acc, sawDone, imageVars>>
  /\ UNCHANGED <<listing, ui, rateVars, proxy>>

\* mutant: the abort of the timer ends the request with the error response
\* of the outer catch
FetchTimeout_HardError(r) ==
  /\ pc[r] = "fetch" /\ hasKey
  /\ upAnswer[r] = AbortMessage
  /\ upCalls' = [upCalls EXCEPT ![r] = @ + 1]
  /\ now' = now + 1
  /\ openaiError' = [openaiError EXCEPT ![r] = AbortMessage]
  /\ status' = [status EXCEPT ![r] = 400]
  /\ resp' = [resp EXCEPT ![r] = TextErrorResp(AbortMessage)]
  /\ pc' = [pc EXCEPT ![r] = "rejected"]
  /\ UNCHANGED <<storeVars, inputVars, chatId, userErr, sessErr, relayVars, attempt, imageAnswers, tryPrompt>>
  /\ UNCHANGED <<listing, ui, rateVars, proxy>>

\* the 30 s timer fires while fetch() is pending: controller.abort() makes
\* fetch() reject with the abort error, which the same catch handles
FetchTimeout(r) ==
  /\ pc[r] = "fetch" /\ hasKey
  /\ upAnswer[r] = AbortMessage
  /\ upCalls' = [upCalls EXCEPT ![r] = @ + 1]
  /\ now' = now + 1
  /\ CatchOpenaiError(r, AbortMessage)
  /\ UNCHANGED <<storeVars, inputVars, chatId, userErr, sessErr, upPos, acc, sawDone, imageVars>>
  /\ UNCHANGED <<listing, ui, rateVars, proxy>>

\* controller.enqueue / controller.close are allowed on a readable stream
\* only; on any other they throw
CanEnqueue(r) == downState[r] = "readable"

\* controller.error(e): errors a readable stream, does nothing otherwise
Errored(r) == IF downState[r] = "readable" THEN "errored" ELSE downState[r]

\* mutant: the word loop closes the stream without the [DONE] frame
EmitWord_NoDone(r) ==
  /\ pc[r] = "emit"
  /\ IF ~CanEnqueue(r)
     THEN /\ downState' = [downState EXCEPT ![r] = Errored(r)]
          /\ pc' = [pc EXCEPT ![r] = "failed"]
          /\ UNCHANGED <<down, words>>
     ELSE IF words[r] # <<>>
     THEN /\ down' = [down EXCEPT ![r] = Append(@, ContentFrame(Head(words[r]) \o <<SP>>))]
          /\ words' = [words EXCEPT ![r] = Tail(@)]
          /\ UNCHANGED <<downState, pc>>
     ELSE /\ downState' = [downState EXCEPT ![r] = "closed"]
          /\ pc' = [pc EXCEPT ![r] = "closed"]
          /\ UNCHANGED <<down, words>>
  /\ now' = now + 1
  /\ UNCHANGED <<storeVars, inputVars, chatId, userErr, sessErr, upPos, acc, route, status,
                 upCalls, sawDone, imageVars>>
  /\ UNCHANGED <<openaiError, listing, ui, rateVars, proxy>>

\* the timer of the word loop has fired: the next word, or after the last
\* one [DONE] and close; a throwing enqueue ends in controller.error
EmitWord(r) ==
  /\ pc[r] = "emit"
  /\ IF ~CanEnqueue(r)
     THEN /\ downState' = [downState EXCEPT ![r] = Errored(r)]
          /\ pc' = [pc EXCEPT ![r] = "failed"]
          /\ UNCHANGED <<down, words>>
     ELSE IF words[r] # <<>>
     THEN /\ down' = [down EXCEPT ![r] = Append(@, ContentFrame(Head(words[r]) \o <<SP>>))]
          /\ words' = [words EXCEPT ![r] = Tail(@)]
          /\ UNCHANGED <<downState, pc>>
     ELSE /\ down' = [down EXCEPT ![r] = Append(@, DoneFrame)]
          /\ downState' = [downState EXCEPT ![r] = "closed"]
          /\ pc' = [pc EXCEPT ![r] = "closed"]
          /\ UNCHANGED words
  /\ now' = now + 1
  /\ UNCHANGED <<storeVars, inputVars, chatId, userErr, sessErr, upPos, acc, route, status,
                 upCalls, sawDone, imageVars>>
  /\ UNCHANGED <<openaiError, listing, ui, rateVars, proxy>>

\* mutant: [DONE] is enqueued but the loop goes on reading (no close, no return)
FinishDone_NoReturn(r) ==
  /\ down' = [down EXCEPT ![r] = IF CanEnqueue(r) THEN Append(@, DoneFrame) ELSE @]
  /\ pc' = [pc EXCEPT ![r] = "read"]
  /\ UNCHANGED downState

\* the [DONE] branch after the insert: enqueue [DONE], close, return; a
\* throwing enqueue ends in the outer catch
FinishDone(r) ==
  IF CanEnqueue(r)
  THEN /\ down' = [down EXCEPT ![r] = Append(@, DoneFrame)]
       /\ downState' = [downState EXCEPT ![r] = "closed"]
       /\ pc' = [pc EXCEPT ![r] = "closed"]
  ELSE /\ downState' = [downState EXCEPT ![r] = Errored(r)]
       /\ pc' = [pc EXCEPT ![r] = "failed"]
       /\ UNCHANGED down

\* mutant: the guard on the accumulated response is missing
ShouldPersist_Always(a) == TRUE

\* if (accumulatedResponse): the assistant message is inserted
ShouldPersist(a) == a # <<>>

\* mutant: at [DONE] the frame is enqueued before the insert is awaited
RelayRead_DoneBeforeInsert(r) ==
  /\ pc[r] = "read"
  /\ \E n \in 1..(Len(UpBytes(r)) - upPos[r]) :
       LET chunk == SubSeq(UpBytes(r), upPos[r] + 1, upPos[r] + n)
           st    == ProcessChunk(chunk, acc[r], CanEnqueue(r))
       IN  /\ upPos' = [upPos EXCEPT ![r] = @ + n]
           /\ acc' = [acc EXCEPT ![r] = st.acc]
           /\ sawDone' = [sawDone EXCEPT ![r] = st.done]
           /\ IF ~st.done
              THEN /\ down' = [down EXCEPT ![r] = @ \o st.out]
                   /\ UNCHANGED <<downState, pc>>
              ELSE IF ShouldPersist(st.acc)
              THEN /\ down' = [down EXCEPT ![r] = Append(@ \o st.out, DoneFrame)]
                   /\ pc' = [pc EXCEPT ![r] = "asstInsert"]
                   /\ UNCHANGED downState
              ELSE IF CanEnqueue(r)
              THEN /\ down' = [down EXCEPT ![r] = Append(@ \o st.out, DoneFrame)]
                   /\ downState' = [downState EXCEPT ![r] = "closed"]
                   /\ pc' = [pc EXCEPT ![r] = "closed"]
              ELSE /\ downState' = [downState EXCEPT ![r] = Errored(r)]
                   /\ pc' = [pc EXCEPT ![r] = "failed"]
                   /\ UNCHANGED down
  /\ UNCHANGED <<storeVars, inputVars, chatId, userErr, sessErr, words, route, status, upCalls, now, imageVars>>
  /\ UNCHANGED <<openaiError, listing, ui, rateVars, proxy>>

\* reader.read() yields a chunk of n symbols: decode, split, loop over the
\* lines; at [DONE] with accumulated content the handler awaits the insert
RelayRead(r) ==
  /\ pc[r] = "read"
  /\ \E n \in 1..(Len(UpBytes(r)) - upPos[r]) :
       LET chunk == SubSeq(UpBytes(r), upPos[r] + 1, upPos[r] + n)
           st    == ProcessChunk(chunk, acc[r], CanEnqueue(r))
       IN  /\ upPos' = [upPos EXCEPT ![r] = @ + n]
           /\ acc' = [acc EXCEPT ![r] = st.acc]
           /\ sawDone' = [sawDone EXCEPT ![r] = st.done]
           /\ IF ~st.done
              THEN /\ down' = [down EXCEPT ![r] = @ \o st.out]
                   /\ UNCHANGED <<downState, pc>>
              ELSE IF ShouldPersist(st.acc)
              THEN /\ down' = [down EXCEPT ![r] = @ \o st.out]
                   /\ pc' = [pc EXCEPT ![r] = "asstInsert"]
                   /\ UNCHANGED downState
              ELSE IF CanEnqueue(r)
              THEN /\ down' = [down EXCEPT ![r] = Append(@ \o st.out, DoneFrame)]
                   /\ downState' = [downState EXCEPT ![r] = "closed"]
                   /\ pc' = [pc EXCEPT ![r] = "closed"]
              ELSE /\ downState' = [downState EXCEPT ![r] = Errored(r)]
                   /\ pc' = [pc EXCEPT ![r] = "failed"]
                   /\ UNCHANGED down
  /\ UNCHANGED <<storeVars, inputVars, chatId, userErr, sessErr, words, route, status, upCalls, now, imageVars>>
  /\ UNCHANGED <<openaiError, listing, ui, rateVars, proxy>>

\* the insert of the assistant message returns (an error is logged), then
\* [DONE] is enqueued and the stream closed
AssistantInsert(r) ==
  /\ pc[r] = "asstInsert"
  /\ \E fault \in BOOLEAN :
       messages' = IF MessageInsertOk(AssistantTextRow(r), fault)
                   THEN Append(messages, AssistantTextRow(r))
                   ELSE messages
  /\ FinishDone(r)
  /\ UNCHANGED <<sessions, inputVars, chatId, userErr, sessErr, upPos, acc, words, route,
                 status, upCalls, now, sawDone, imageVars>>
  /\ UNCHANGED <<openaiError, listing, ui, rateVars, proxy>>

\* reader.read() yields done, the body is complete (a body cut short is one
\* of the event sequences without [DONE]): break, and start() returns
RelayEnd(r) ==
  /\ pc[r] = "read"
  /\ upPos[r] = Len(UpBytes(r))
  /\ pc' = [pc EXCEPT ![r] = "ended"]
  /\ UNCHANGED <<storeVars, inputVars, chatId, userErr, sessErr, upPos, acc, down, downState,
                 words, route, status, upCalls, now, sawDone, imageVars>>
  /\ UNCHANGED <<openaiError, listing, ui, rateVars, proxy>>

\* reader.read() rejects (the upstream connection broke): the outer catch
\* calls controller.error
RelayError(r) ==
  /\ pc[r] = "read"
  /\ downState' = [downState EXCEPT ![r] = Errored(r)]
  /\ pc' = [pc EXCEPT ![r] = "failed"]
  /\ UNCHANGED <<storeVars, inputVars, chatId, userErr, sessErr, upPos, acc, down, words, route,
                 status, upCalls, now, sawDone, imageVars>>
  /\ UNCHANGED <<openaiError, listing, ui, rateVars, proxy>>

\* the client disconnects: the response stream is cancelled; the stream has
\* no cancel handler, so nothing else changes
ClientCancel(r) ==
  /\ downState[r] = "readable"
  /\ downState' = [downState EXCEPT ![r] = "cancelled"]
  /\ UNCHANGED <<storeVars, inputVars, pc, chatId, userErr, sessErr, upPos, acc, down, words,
                 route, status, upCalls, now, sawDone, imageVars>>
  /\ UNCHANGED <<openaiError, listing, ui, rateVars, proxy>>

(***************************************************************************)
(* /chat-image: validation, image call with content-policy retry.          *)
(***************************************************************************)
\* originalPrompt.length < 3
MinPromptLen == 3

\* attempt < 3
MaxAttempts == 3

\* the words of the replacement table of preprocessPrompt
Replacement(w) ==
  CASE w = "kill"    -> "defeat"
    [] w = "die"     -> "rest"
    [] w = "dead"    -> "sleeping"
    [] w = "weapon"  -> "tool"
    [] w = "gun"     -> "device"
    [] w = "violent" -> "energetic"
    [] w = "fight"   -> "compete"
    [] OTHER         -> w

\* the words whose lower-case text includes 'art', 'illustration',
\* 'drawing' or 'painting'
ArtWords == {"art", "illustration", "drawing", "painting", "smart"}

\* preprocessPrompt: the illustration framing unless an art word is there,
\* then the replacement table
PreprocessPrompt(prompt) ==
  LET framed == IF \E i \in 1..Len(prompt) : prompt[i] \in ArtWords
                THEN prompt
                ELSE <<"Digital illustration of", SP>> \o prompt
  IN  [i \in 1..Len(framed) |-> Replacement(framed[i])]

\* generateAlternativePrompts(originalPrompt)
AlternativePrompts(originalPrompt) ==
  << <<"Artistic rendering of", SP>> \o originalPrompt,
     <<"Whimsical illustration showing", SP>> \o originalPrompt,
     <<"Creative digital art depicting", SP>> \o originalPrompt,
     <<"Cartoon-style image of", SP>> \o originalPrompt,
     <<"Fantasy illustration of", SP>> \o originalPrompt >>

\* the answers of the image API: an image with or without revised_prompt,
\* a 2xx answer with an empty data array, the error codes, an error body
\* that is not JSON (4xx or 5xx), a 5xx with a JSON message
ImageAnswers ==
  {"image", "imageRevised", "emptyData", "policy", "rateLimit", "unparsable4xx",
   "unparsable5xx", "server5xx"}

ImageUrl == <<"https://image">>
RevisedPrompt == <<"revised">>

\* mutant: the error branches answer as a success
ErrorResp_ReportsSuccess(r, error, attemptsUsed) ==
  [success |-> TRUE, error |-> error, imageUrl |-> <<>>, revisedPrompt |-> <<>>,
   chatId |-> NoId, attemptsUsed |-> attemptsUsed]

\* the error response of attemptImageGeneration / of the outer catch
ErrorResp(r, error, attemptsUsed) ==
  [success |-> FALSE, error |-> error, imageUrl |-> <<>>, revisedPrompt |-> <<>>,
   chatId |-> NoId, attemptsUsed |-> attemptsUsed]

BannedWords == {"explicit", "pornographic", "nsfw", "sexual", "nude", "naked"}

\* the message of the Error thrown by the method check and the body
\* validation of /chat-image, in the order of the checks; NoError if the
\* request passes
ImageValidationError(b) ==
  IF b.shape = "badmethod" THEN <<"Method", "not allowed">>
  ELSE IF b.shape = "badjson" THEN <<"Invalid JSON in request body">>
  ELSE IF b.shape = "nomsg" \/ b.message = <<>>
  THEN <<"Message field is required and must be a string">>
  ELSE LET originalPrompt == Trim(b.message)
           processedPrompt == PreprocessPrompt(originalPrompt)
       IN  IF Len(originalPrompt) > MaxPromptLen THEN <<"Prompt", "too long">>
           ELSE IF Len(originalPrompt) < MinPromptLen THEN <<"Prompt", "too short">>
           ELSE IF \E i \in 1..Len(processedPrompt) : processedPrompt[i] \in BannedWords
           THEN <<"Prompt contains", "inappropriate", "content">>
           ELSE IF b.chatId # NoId /\ IdLen(b.chatId) > MaxChatIdLen
           THEN <<"chatId must be a valid string">>
           ELSE NoError

\* statusCode of the outer catch of /chat-image
StatusCode(error) ==
  IF Includes(error, "not allowed") THEN 405
  ELSE IF Includes(error, "too long") THEN 400
  ELSE IF Includes(error, "inappropriate") THEN 400
  ELSE 500

\* the 429 response of the rate limiting check
RateLimitResp ==
  [success |-> FALSE, error |-> <<"Rate limit exceeded. Please try again later.">>,
   imageUrl |-> <<>>, revisedPrompt |-> <<>>, chatId |-> NoId, attemptsUsed |-> 0]

\* method check, rate limiting check and body validation; the limiter
\* answers 429 itself, a throw ends in the outer catch, which answers
\* {success: false, error} with statusCode
ImageValidate(r) ==
  /\ kind[r] = "image" /\ pc[r] = "start"
  /\ LET error   == ImageValidationError(body[r])
         limiter == CheckRateLimit(rateLimitMap, ClientId(r), now)
     IN  IF body[r].shape = "badmethod"
         THEN /\ status' = [status EXCEPT ![r] = StatusCode(error)]
              /\ resp' = [resp EXCEPT ![r] = ErrorResp(r, error, 0)]
              /\ pc' = [pc EXCEPT ![r] = "rejected"]
              /\ UNCHANGED <<chatId, tryPrompt, rateVars>>
         ELSE /\ rateLimitMap' = limiter.map
              /\ rateAnswer' = [client |-> ClientId(r), ok |-> limiter.ok]
              /\ IF ~limiter.ok
                 THEN /\ status' = [status EXCEPT ![r] = 429]
                      /\ resp' = [resp EXCEPT ![r] = RateLimitResp]
                      /\ pc' = [pc EXCEPT ![r] = "rejected"]
                      /\ UNCHANGED <<chatId, tryPrompt>>
                 ELSE IF error = NoError
                 THEN /\ chatId' = [chatId EXCEPT ![r] =
                                      IF body[r].chatId # NoId THEN body[r].chatId
                                      ELSE RandomUUID(r)]
                      /\ tryPrompt' = [tryPrompt EXCEPT ![r] = PreprocessPrompt(Prompt(r))]
                      /\ pc' = [pc EXCEPT ![r] = "select"]
                      /\ UNCHANGED <<status, resp>>
                 ELSE /\ status' = [status EXCEPT ![r] = StatusCode(error)]
                      /\ resp' = [resp EXCEPT ![r] = ErrorResp(r, error, 0)]
                      /\ pc' = [pc EXCEPT ![r] = "rejected"]
                      /\ UNCHANGED <<chatId, tryPrompt>>
  /\ UNCHANGED <<storeVars, inputVars, userErr, sessErr, relayVars, attempt, imageAnswers, upCalls, now>>
  /\ UNCHANGED <<openaiError, listing, ui, proxy>>

\* without an API key: the mock response, no upstream call, no insert
ImageMock(r) ==
  /\ pc[r] = "generate" /\ ~hasKey
  /\ resp' = [resp EXCEPT ![r] =
                [success |-> TRUE, error |-> NoError, imageUrl |-> <<"https://via.placeholder.com">>,
                 revisedPrompt |-> <<"Mock generation for:", SP>> \o tryPrompt[r],
                 chatId |-> chatId[r], attemptsUsed |-> 0]]
  /\ status' = [status EXCEPT ![r] = 200]
  /\ pc' = [pc EXCEPT ![r] = "responded"]
  /\ UNCHANGED <<storeVars, inputVars, chatId, userErr, sessErr, relayVars, attempt, imageAnswers, tryPrompt, upCalls, now>>
  /\ UNCHANGED <<openaiError, listing, ui, rateVars, proxy>>

\* mutant: a rate-limit answer is retried like a content-policy rejection
ShouldRetry_RateLimitToo(answer, n, alternatives) ==
  answer \in {"policy", "rateLimit"} /\ n < MaxAttempts /\ n =< Len(alternatives)

\* mutant: a content-policy rejection is retried while alternatives are left
ShouldRetry_NoBound(answer, n, alternatives) ==
  answer = "policy" /\ n =< Len(alternatives)

\* content_policy_violation: shouldRetry = attempt < 3, and the retry is
\* made if an alternative is left for this attempt
ShouldRetry(answer, n, alternatives) ==
  answer = "policy" /\ n < MaxAttempts /\ n =< Len(alternatives)

\* one call of attemptImageGeneration up to its first await after the
\* fetch: the answer decides between retry, error response and insert
ImageAttempt(r) ==
  /\ pc[r] = "generate" /\ hasKey
  /\ upCalls' = [upCalls EXCEPT ![r] = @ + 1]
  /\ now' = now + 1
  /\ LET n == attempt[r] + 1
         alternatives == AlternativePrompts(Prompt(r))
     IN  \E answer \in ImageAnswers :
         /\ imageAnswers' = [imageAnswers EXCEPT ![r] = Append(@, answer)]
         /\ CASE answer \in {"image", "imageRevised"} ->
                  /\ attempt' = [attempt EXCEPT ![r] = n]
                  /\ resp' = [resp EXCEPT ![r] =
                                [success |-> TRUE, error |-> NoError, imageUrl |-> ImageUrl,
                                 revisedPrompt |-> IF answer = "imageRevised" THEN RevisedPrompt
                                                   ELSE tryPrompt[r],
                                 chatId |-> chatId[r], attemptsUsed |-> n]]
                  /\ pc' = [pc EXCEPT ![r] = "imageInsert"]
                  /\ UNCHANGED <<status, tryPrompt>>
             [] ShouldRetry(answer, n, alternatives) ->
                  /\ attempt' = [attempt EXCEPT ![r] = n]
                  /\ tryPrompt' = [tryPrompt EXCEPT ![r] = alternatives[n]]
                  /\ UNCHANGED <<status, resp, pc>>
             [] OTHER ->
                  /\ attempt' = [attempt EXCEPT ![r] = n]
                  /\ resp' = [resp EXCEPT ![r] =
                                ErrorResp(r, <<answer>>, IF answer = "emptyData" THEN 0 ELSE n)]
                  /\ status' = [status EXCEPT ![r] =
                                  IF answer \in {"emptyData", "unparsable5xx", "server5xx"}
                                  THEN 502 ELSE 400]
                  /\ pc' = [pc EXCEPT ![r] = "responded"]
                  /\ UNCHANGED tryPrompt
  /\ UNCHANGED <<storeVars, inputVars, chatId, userErr, sessErr, relayVars>>
  /\ UNCHANGED <<openaiError, listing, ui, rateVars, proxy>>

\* the fetch of the image call rejects: the outer catch answers 500
ImageFetchThrows(r) ==
  /\ pc[r] = "generate" /\ hasKey
  /\ upCalls' = [upCalls EXCEPT ![r] = @ + 1]
  /\ now' = now + 1
  /\ attempt' = [attempt EXCEPT ![r] = @ + 1]
  /\ resp' = [resp EXCEPT ![r] = ErrorResp(r, <<"network">>, 0)]
  /\ imageAnswers' = [imageAnswers EXCEPT ![r] = Append(@, "network")]
  /\ status' = [status EXCEPT ![r] = 500]
  /\ pc' = [pc EXCEPT ![r] = "responded"]
  /\ UNCHANGED <<storeVars, inputVars, chatId, userErr, sessErr, relayVars, tryPrompt>>
  /\ UNCHANGED <<openaiError, listing, ui, rateVars, proxy>>

AssistantImageRow(r) ==
  [chat_id |-> chatId[r], role |-> "assistant", content |-> resp[r].revisedPrompt,
   type |-> "image", image_url |-> resp[r].imageUrl, created_at |-> now, by |-> r]

\* the insert of the assistant image message returns (an error is logged),
\* then the success response
ImageInsert(r) ==
  /\ pc[r] = "imageInsert"
  /\ \E fault \in BOOLEAN :
       messages' = IF MessageInsertOk(AssistantImageRow(r), fault)
                   THEN Append(messages, AssistantImageRow(r))
                   ELSE messages
  /\ status' = [status EXCEPT ![r] = 200]
  /\ pc' = [pc EXCEPT ![r] = "responded"]
  /\ UNCHANGED <<sessions, inputVars, chatId, userErr, sessErr, relayVars, imageVars, upCalls, now>>
  /\ UNCHANGED <<openaiError, listing, ui, rateVars, proxy>>

(***************************************************************************)
(* /get-chat-history.                                                      *)
(***************************************************************************)
\* .limit(50)
HistoryLimit == 50

\* the rows of messages (by their positions in I) in an order that
\* .order("created_at", {ascending: true}) can return: rows of equal
\* created_at in any order
RECURSIVE ByCreatedAt(_)
ByCreatedAt(I) ==
  IF I = {} THEN {<<>>}
  ELSE LET first == {i \in I : \A j \in I : messages[i].created_at =< messages[j].created_at}
       IN  UNION {{<<messages[i]>> \o q : q \in ByCreatedAt(I \ {i})} : i \in first}

\* a row of chat_sessions as select("*") returns it
SessionRow(id) ==
  [id |-> id, title |-> sessions[id].title, created_at |-> sessions[id].created_at,
   updated_at |-> sessions[id].updated_at]

\* the sessions of S in an order that
\* .order("updated_at", {ascending: false}) can return
RECURSIVE ByUpdatedAtDesc(_)
ByUpdatedAtDesc(S) ==
  IF S = {} THEN {<<>>}
  ELSE LET first == {x \in S : \A y \in S : sessions[x].updated_at >= sessions[y].updated_at}
       IN  UNION {{<<SessionRow(x)>> \o q : q \in ByUpdatedAtDesc(S \ {x})} : x \in first}

\* mutant: the query without .limit(50)
Limit_None(q) == q

\* .limit(50)
Limit(q) == SubSeq(q, 1, Min(Len(q), HistoryLimit))

\* .eq("chat_id", chatId): the positions of the messages of session id
MessagesOf(id) == {i \in DOMAIN messages : messages[i].chat_id = id}

\* the message of the error thrown before the query: the method check, or
\* req.json() on the body of a POST without chatId in the query
HistoryError(b) ==
  IF b.shape = "badmethod" THEN <<"Method", "not allowed">>
  ELSE IF b.shape = "badjson" THEN <<"SyntaxError of req.json()">>
  ELSE NoError

\* the handler of /get-chat-history: the method check, the chatId of the
\* query or the body, one select, the response; a throw (method, JSON of
\* the body, an error of the store) ends in the catch, which answers 400
GetChatHistory(r) ==
  /\ kind[r] = "history" /\ pc[r] = "start"
  /\ \E fault \in BOOLEAN :
       IF body[r].shape \in {"badmethod", "badjson"}
       THEN /\ status' = [status EXCEPT ![r] = 400]
            /\ resp' = [resp EXCEPT ![r] = TextErrorResp(HistoryError(body[r]))]
            /\ pc' = [pc EXCEPT ![r] = "rejected"]
            /\ UNCHANGED listing
       ELSE IF fault \/ (body[r].chatId # NoId /\ ~ValidUuid(body[r].chatId))
       THEN /\ status' = [status EXCEPT ![r] = 400]
            /\ resp' = [resp EXCEPT ![r] = TextErrorResp(<<"store error">>)]
            /\ pc' = [pc EXCEPT ![r] = "responded"]
            /\ UNCHANGED listing
       ELSE /\ status' = [status EXCEPT ![r] = 200]
            /\ resp' = [resp EXCEPT ![r] = [NoResp EXCEPT !.success = TRUE,
                                                          !.chatId = body[r].chatId]]
            /\ pc' = [pc EXCEPT ![r] = "responded"]
            /\ \E q \in IF body[r].chatId # NoId
                         THEN ByCreatedAt(MessagesOf(body[r].chatId))
                         ELSE ByUpdatedAtDesc(DOMAIN sessions) :
                 listing' = [listing EXCEPT ![r] =
                               IF body[r].chatId # NoId THEN q ELSE Limit(q)]
  /\ UNCHANGED <<storeVars, inputVars, chatId, userErr, sessErr, relayVars, attempt, imageAnswers, tryPrompt,
                 upCalls, now, openaiError, ui, rateVars, proxy>>

Next ==
  \/ \E r \in Reqs :
    \/ Arrive(r)
    \/ TextValidate(r)
    \/ SessionLookup(r)
    \/ SessionCreate(r)
    \/ SessionTouch(r)
    \/ UserInsert(r)
    \/ TextMock(r)
    \/ FetchOk(r)
    \/ FetchFail(r)
    \/ FetchTimeout(r)
    \/ EmitWord(r)
    \/ RelayRead(r)
    \/ AssistantInsert(r)
    \/ RelayEnd(r)
    \/ RelayError(r)
    \/ ClientCancel(r)
    \/ ImageValidate(r)
    \/ ImageMock(r)
    \/ ImageAttempt(r)
    \/ ImageFetchThrows(r)
    \/ ImageInsert(r)
    \/ GetChatHistory(r)
    \/ Submit(r)
    \/ PageResponse(r)
  \/ StartNewChat
  \/ Cooldown

Spec == Init /\ [][Next]_vars

(***************************************************************************)
(* Two requests on one store: the second is sent after the response of the *)
(* first is complete, or (without an API key) while the first is being     *)
(* handled.                                                                *)
(***************************************************************************)
\* the chat ids of the two requests: the same one, or none
PairChatIds == {KnownId, UnknownId, NoId}

\* the upstream body of a /chat-text request of a pair
PairEvents == <<DeltaEv(<<"a">>), DoneEv>>

\* the messages of the two requests
PairMessage(r) == IF r = 1 THEN <<"p", "i", "n", "g">> ELSE <<"a", SP, SP, "b">>

\* two requests with the same chatId, one after the other or concurrent, on
\* a deployment without API key
PairSame ==
  /\ InitStore
  /\ ui = UiOff
  /\ kind \in [Reqs -> {"text", "image"}]
  /\ \E id \in PairChatIds :
       body = [r \in Reqs |-> [shape |-> "ok", message |-> PairMessage(r), chatId |-> id]]
  /\ upEvents = [r \in Reqs |-> IF kind[r] = "text" THEN PairEvents ELSE <<>>]
  /\ upAnswer = [r \in Reqs |-> OkAnswer]
  /\ \/ after = [r \in Reqs |-> r - 1]
     \/ after = [r \in Reqs |-> 0]
  /\ hasKey = FALSE

\* two /chat-text relays with the same chatId, one after the other
PairSequel ==
  /\ InitStore
  /\ ui = UiOff
  /\ kind = [r \in Reqs |-> "text"]
  /\ \E id \in {KnownId, UnknownId} :
       body = [r \in Reqs |-> [shape |-> "ok", message |-> PairMessage(r), chatId |-> id]]
  /\ upEvents = [r \in Reqs |-> PairEvents]
  /\ upAnswer = [r \in Reqs |-> OkAnswer]
  /\ after = [r \in Reqs |-> r - 1]
  /\ hasKey = TRUE

\* two concurrent /chat-text relays, each with its own upstream stream: the
\* second request is sent while the first is being relayed
PairRelays ==
  /\ InitStore
  /\ ui = UiOff
  /\ kind = [r \in Reqs |-> "text"]
  /\ body = [r \in Reqs |-> [shape |-> "ok", message |-> PairMessage(r), chatId |-> KnownId]]
  /\ upEvents = [r \in Reqs |-> <<DeltaEv(<<IF r = 1 THEN "a" ELSE "b">>), DoneEv>>]
  /\ upAnswer = [r \in Reqs |-> OkAnswer]
  /\ after = [r \in Reqs |-> IF r = 1 THEN 0 ELSE -1]
  /\ hasKey = TRUE

\* a message persisted before the requests
OldRow(id, role, content) ==
  [chat_id |-> id, role |-> role, content |-> content, type |-> "text",
   image_url |-> <<>>, created_at |-> 0, by |-> 0]

OtherId == "s0"

\* a /chat-text or /chat-image request and a /get-chat-history request, on
\* a store with two sessions and their messages; with an API key the
\* completion call fails
PairHistory ==
  /\ sessions = [id \in {KnownId, OtherId} |-> NewSession(<<"o", "l", "d">>, 0)]
  /\ messages = <<OldRow(KnownId, "user", <<"q">>), OldRow(OtherId, "user", <<"o">>),
                  OldRow(KnownId, "assistant", <<"r">>)>>
  /\ ui = UiOff
  /\ \E k \in {"text", "image"} : kind = [r \in Reqs |-> IF r = 1 THEN k ELSE "history"]
  /\ \E id1 \in {KnownId, UnknownId}, id2 \in {KnownId, UnknownId, NoId} :
       body = [r \in Reqs |-> [shape |-> "ok", message |-> PairMessage(r),
                               chatId |-> IF r = 1 THEN id1 ELSE id2]]
  /\ upEvents = [r \in Reqs |-> <<>>]
  /\ \/ hasKey = FALSE /\ upAnswer = [r \in Reqs |-> OkAnswer]
     \/ /\ hasKey = TRUE
        /\ \E answer \in {AbortMessage, <<"connection refused">>} :
             upAnswer = [r \in Reqs |-> IF kind[r] = "text" THEN answer ELSE OkAnswer]
  /\ after = [r \in Reqs |-> 0]

\* one session more than a listing returns
ManySessions == HistoryLimit + 1

ManyId(i) == "old" \o ToString(i)

\* a /chat-text request into the least recently updated of ManySessions
\* sessions, or the history of that session, and a listing of the sessions
PairHistoryMany ==
  /\ sessions = [id \in {ManyId(i) : i \in 1..ManySessions} |->
                   NewSession(<<"o", "l", "d">>,
                              0 - (CHOOSE i \in 1..ManySessions : id = ManyId(i)))]
  /\ messages = <<OldRow(ManyId(ManySessions), "user", <<"q">>),
                  OldRow(ManyId(1), "user", <<"o">>),
                  OldRow(ManyId(ManySessions), "assistant", <<"r">>)>>
  /\ ui = UiOff
  /\ \E k \in {"text", "history"} : kind = [r \in Reqs |-> IF r = 1 THEN k ELSE "history"]
  /\ body = [r \in Reqs |-> [shape |-> "ok", message |-> PairMessage(r),
                              chatId |-> IF r = 1 THEN ManyId(ManySessions) ELSE NoId]]
  /\ upEvents = [r \in Reqs |-> <<>>]
  /\ upAnswer = [r \in Reqs |-> OkAnswer]
  /\ after = [r \in Reqs |-> 0]
  /\ hasKey = FALSE

\* two submits of the page, in either mode, on a deployment without API key
PairPage ==
  /\ InitStore
  /\ ui = UiLoaded
  /\ kind \in [Reqs -> {"text", "image"}]
  /\ body = [r \in Reqs |-> [shape |-> "ok", message |-> PairMessage(r), chatId |-> NoId]]
  /\ upEvents = [r \in Reqs |-> <<>>]
  /\ upAnswer = [r \in Reqs |-> OkAnswer]
  /\ after = [r \in Reqs |-> r - 1]
  /\ hasKey = FALSE

\* a relayed /chat-text request and the history of its session, asked for
\* at any time
PairRelayHistory ==
  /\ InitStore
  /\ ui = UiOff
  /\ kind = [r \in Reqs |-> IF r = 1 THEN "text" ELSE "history"]
  /\ \E id \in {KnownId, UnknownId} :
       body = [r \in Reqs |-> [shape |-> "ok", message |-> PairMessage(r), chatId |-> id]]
  /\ upEvents = [r \in Reqs |-> IF r = 1 THEN PairEvents ELSE <<>>]
  /\ upAnswer = [r \in Reqs |-> OkAnswer]
  /\ after = [r \in Reqs |-> 0]
  /\ hasKey = TRUE

InitPair ==
  /\ \/ PairSame \/ PairSequel \/ PairRelays \/ PairHistory \/ PairHistoryMany \/ PairPage
     \/ PairRelayHistory
  /\ InitLocals
  /\ rateLimitMap \in IF ui.on /\ kind[1] = "image" THEN {NoWindows, FullWindow}
                      ELSE {NoWindows}

SpecPair == InitPair /\ [][Next]_vars


(***************************************************************************)
(* Properties.                                                             *)
(***************************************************************************)
\* the rows of the messages table that request r inserted with the given role
RowsBy(r, role) ==
  {i \in 1..Len(messages) : messages[i].by = r /\ messages[i].role = role}

\* the contents of the content frames of a frame sequence, in order
RECURSIVE ContentsOf(_)
ContentsOf(frames) ==
  IF frames = <<>> THEN <<>>
  ELSE IF Head(frames).kind = "content"
  THEN <<Head(frames).content>> \o ContentsOf(Tail(frames))
  ELSE ContentsOf(Tail(frames))

DoneFrames(frames) == {i \in 1..Len(frames) : frames[i].kind = "done"}

\* the handler of request r has returned and its stream has no step left
TextSettled(r) == kind[r] = "text" /\ pc[r] \in {"closed", "ended", "failed"}

----------------------------------------------------------------------------
\* C1: an assistant text message of a /chat-text request is in the store
\* only if the relay has decoded [DONE] with a non-empty accumulated
\* response (which is its content); a relay whose upstream ended or failed
\* before [DONE] has persisted no assistant message.
C1_NoPartialPersist ==
  \A r \in Reqs :
    kind[r] = "text" =>
      /\ \A i \in RowsBy(r, "assistant") :
           sawDone[r] /\ acc[r] # <<>> /\ messages[i].content = acc[r]
      /\ (pc[r] \in {"ended", "failed"} /\ ~sawDone[r]) => RowsBy(r, "assistant") = {}

\* the upstream ended, or failed, after content was forwarded and before
\* [DONE], and nothing was persisted
C1_Witness ==
  \E r \in Reqs :
    /\ kind[r] = "text" /\ pc[r] \in {"ended", "failed"}
    /\ ~sawDone[r] /\ acc[r] # <<>> /\ down[r] # <<>>
    /\ RowsBy(r, "assistant") = {}

----------------------------------------------------------------------------
\* C2 (as claimed): whenever the upstream call of a request has been
\* issued, the user's prompt is in the store.
C2_PromptStoredBeforeUpstream ==
  \A r \in Reqs :
    upCalls[r] > 0 =>
      \E i \in RowsBy(r, "user") : messages[i].content = Prompt(r)

\* C2 (amended): the upstream call is issued only after the insert of the
\* user message has returned, and if that insert returned no error the
\* prompt is in the store, under the request's chat id, whenever the
\* upstream call has been issued.
C2_InsertSettledBeforeUpstream ==
  \A r \in Reqs :
    upCalls[r] > 0 =>
      /\ pc[r] \notin {"idle", "start", "select", "sessInsert", "sessUpdate", "userInsert"}
      /\ ~userErr[r] =>
           \E i \in RowsBy(r, "user") :
             messages[i].content = Prompt(r) /\ messages[i].chat_id = chatId[r]

\* an image call has been issued with the prompt stored
C2_Witness ==
  \E r \in Reqs :
    /\ kind[r] = "image" /\ upCalls[r] > 0 /\ ~userErr[r]
    /\ \E i \in RowsBy(r, "user") : messages[i].content = Prompt(r)

----------------------------------------------------------------------------
\* the upstream events are non-empty content deltas followed by [DONE]
DeltasThenDone(evs) ==
  /\ Len(evs) >= 2
  /\ evs[Len(evs)] = DoneEv
  /\ \A i \in 1..(Len(evs) - 1) : evs[i].kind = "delta" /\ evs[i].content # <<>>

\* the frames {"content": d1}, ..., {"content": dn}, [DONE]
ExpectedFrames(evs) ==
  [i \in 1..Len(evs) |-> IF i < Len(evs) THEN ContentFrame(evs[i].content) ELSE DoneFrame]

\* C3 (as claimed): when the upstream body d1..dn, [DONE] has been delivered
\* in full to a relay whose client stayed connected, the downstream frames
\* are exactly {"content": d1}, ..., {"content": dn}, [DONE].
C3_RelayForwardsEveryDelta ==
  \A r \in Reqs :
    ( /\ route[r] = "relay"
      /\ DeltasThenDone(upEvents[r])
      /\ upPos[r] = Len(UpBytes(r))
      /\ pc[r] \in {"closed", "ended"}
      /\ downState[r] # "cancelled" )
    => down[r] = ExpectedFrames(upEvents[r])

----------------------------------------------------------------------------
\* C4 (as claimed): the content of the persisted assistant message is the
\* concatenation of the deltas forwarded downstream.
C4_PersistedEqualsForwarded ==
  \A r \in Reqs :
    kind[r] = "text" =>
      \A i \in RowsBy(r, "assistant") :
        messages[i].content = Concat(ContentsOf(down[r]))

----------------------------------------------------------------------------
\* C5 (as claimed): when the upstream body has ended without [DONE] and
\* the relay has returned, the downstream stream is not left open.
C5_EndedStreamIsClosed ==
  \A r \in Reqs : pc[r] = "ended" => downState[r] # "readable"

----------------------------------------------------------------------------
\* C6 (as claimed): once the client has cancelled the response stream of a
\* relay that is reading, the relay reads no further from upstream and does
\* not go on to insert an assistant message.
C6_CancelStopsRelay ==
  [][ \A r \in Reqs :
        (route[r] = "relay" /\ downState[r] = "cancelled" /\ pc[r] = "read")
        => (upPos'[r] = upPos[r] /\ pc'[r] # "asstInsert") ]_vars

----------------------------------------------------------------------------
\* C7 (as claimed): when the fallback stream of a failed completion call
\* has been sent, exactly one assistant message of the request is in the
\* store.
C7_FallbackPersisted ==
  \A r \in Reqs :
    (route[r] = "fallback" /\ pc[r] = "closed")
    => Cardinality(RowsBy(r, "assistant")) = 1

----------------------------------------------------------------------------
\* a frame content that is one word followed by one blank
IsWordFrame(c) ==
  /\ Len(c) >= 1
  /\ c[Len(c)] = SP
  /\ \A j \in 1..(Len(c) - 1) : c[j] # SP

\* C8: after a failed completion call nothing is read from upstream or
\* accumulated; the response stream carries the fallback text word by word
\* (each frame one word and a blank, in the order of the text), then one
\* [DONE] frame as the last frame, and is closed; while the words are being
\* sent the frames are a prefix of that sequence without [DONE], and only a
\* client that has cancelled keeps the stream from completing.
C8_FallbackWireContract ==
  \A r \in Reqs :
    route[r] = "fallback" =>
      /\ upPos[r] = 0 /\ acc[r] = <<>> /\ ~sawDone[r]
      /\ down[r] # <<>> /\ down[r][1].kind = "content"
      /\ \A i \in 1..Len(down[r]) :
           down[r][i].kind = "content" => IsWordFrame(down[r][i].content)
      /\ \E errorMessage \in FetchFailures :
           LET text == FallbackResponse(errorMessage, body[r].message) \o <<SP>>
               sent == Concat(ContentsOf(down[r]))
           IN  /\ IsPrefix(sent, text)
               /\ pc[r] = "closed" => sent = text
      /\ pc[r] = "closed" =>
           /\ DoneFrames(down[r]) = {Len(down[r])}
           /\ downState[r] = "closed"
      /\ pc[r] # "closed" => DoneFrames(down[r]) = {} /\ downState[r] # "closed"
      /\ pc[r] = "failed" => downState[r] = "cancelled"
      /\ pc[r] \in {"emit", "closed", "failed"}

\* a fallback stream has been sent in full for a prompt of several words
C8_Witness ==
  \E r \in Reqs :
    /\ route[r] = "fallback" /\ pc[r] = "closed"
    /\ body[r].message = <<"a", SP, SP, "b">>
    /\ Len(down[r]) > 5

----------------------------------------------------------------------------
\* C9 (as claimed): a validated /chat-text call that has completed has
\* persisted exactly one user message and at most one assistant message,
\* the latter under the chat id of the former.
C9_ExactlyOneUserMessage ==
  \A r \in Reqs :
    TextSettled(r) =>
      /\ Cardinality(RowsBy(r, "user")) = 1
      /\ Cardinality(RowsBy(r, "assistant")) =< 1
      /\ \A i \in RowsBy(r, "assistant"), j \in RowsBy(r, "user") :
           messages[i].chat_id = messages[j].chat_id

\* C9 (amended): a /chat-text call persists at most one user message and at
\* most one assistant message, both under the request's chat id; once the
\* insert of the user message has returned without an error there is
\* exactly one user message.
C9_Pairing ==
  \A r \in Reqs :
    kind[r] = "text" =>
      /\ Cardinality(RowsBy(r, "user")) =< 1
      /\ Cardinality(RowsBy(r, "assistant")) =< 1
      /\ \A i \in RowsBy(r, "user") \cup RowsBy(r, "assistant") :
           messages[i].chat_id = chatId[r]
      /\ \A i \in RowsBy(r, "assistant"), j \in RowsBy(r, "user") :
           messages[i].chat_id = messages[j].chat_id
      /\ (pc[r] \notin {"idle", "start", "rejected", "select", "sessInsert", "sessUpdate", "userInsert"}
            /\ ~userErr[r])
         => Cardinality(RowsBy(r, "user")) = 1

\* a relay has completed with the user message and the assistant message
\* stored, although the upstream went on after [DONE]
C9_Witness ==
  \E r \in Reqs :
    /\ TextSettled(r) /\ pc[r] = "closed"
    /\ Cardinality(RowsBy(r, "user")) = 1
    /\ Cardinality(RowsBy(r, "assistant")) = 1
    /\ Len(upEvents[r]) = 3 /\ upEvents[r][2] = DoneEv

----------------------------------------------------------------------------
\* a data line that is not the terminal line and whose payload does not
\* parse, or parses to an object without non-empty content
MalformedLine(line) ==
  /\ StartsWith(line, DataPrefix)
  /\ LET data == Trim(Slice(line, Len(DataPrefix)))
     IN  /\ data # DoneToken
         /\ data # <<>>
         /\ ~ParseDelta(data).ok \/ ParseDelta(data).content = <<>>

\* a line the loop passes over: no data line, or a data line without payload
BlankLine(line) ==
  \/ ~StartsWith(line, DataPrefix)
  \/ Trim(Slice(line, Len(DataPrefix))) = <<>>

\* the lines of the chunk that a read step of request r consumes
ChunkLines(r, from, to) == Split(SubSeq(UpBytes(r), from + 1, to), NL)

\* C10: a read whose chunk holds malformed data lines (and otherwise only
\* lines without payload) emits nothing downstream, leaves the accumulator
\* unchanged and leaves the relay reading, with the response stream as it
\* was.
C10_MalformedLineSkipped ==
  [][ \A r \in Reqs :
        (pc[r] = "read" /\ upPos'[r] > upPos[r])
        => LET lines == ChunkLines(r, upPos[r], upPos'[r])
           IN  ( /\ \E i \in 1..Len(lines) : MalformedLine(lines[i])
                 /\ \A i \in 1..Len(lines) : MalformedLine(lines[i]) \/ BlankLine(lines[i]) )
               => /\ acc'[r] = acc[r]
                  /\ down'[r] = down[r]
                  /\ downState'[r] = downState[r]
                  /\ pc'[r] = "read"
                  /\ messages' = messages ]_vars

\* a payload that is not JSON and an object without content were skipped,
\* and the delta and [DONE] around them were forwarded and persisted
C10_Witness ==
  \E r \in Reqs :
    /\ pc[r] = "closed" /\ route[r] = "relay"
    /\ \E i \in 1..Len(upEvents[r]) : upEvents[r][i] \in {JunkEv, NoFieldEv}
    /\ down[r] = <<ContentFrame(<<"a">>), DoneFrame>>
    /\ \E i \in RowsBy(r, "assistant") : messages[i].content = <<"a">>

----------------------------------------------------------------------------
\* the frames and the accumulated content that the decoding loop yields for
\* the upstream body of request r delivered in a single read
WholeDecode(r) == ProcessChunk(UpBytes(r), <<>>, TRUE)
WholeFrames(r) ==
  WholeDecode(r).out \o (IF WholeDecode(r).done THEN <<DoneFrame>> ELSE <<>>)

\* C11 (as claimed): when a relay whose client stayed connected has
\* returned, the downstream frames and the persisted assistant content are
\* those of the upstream body delivered in a single read, however the body
\* was split into reads.
C11_ChunkingIndependent ==
  \A r \in Reqs :
    (route[r] = "relay" /\ pc[r] \in {"closed", "ended"} /\ downState[r] # "cancelled")
    => /\ down[r] = WholeFrames(r)
       /\ \A i \in RowsBy(r, "assistant") : messages[i].content = WholeDecode(r).acc

----------------------------------------------------------------------------
\* C12: no session row is ever removed, the messages table only grows by
\* one row at its end, and the chat_id of a row that is inserted is the id
\* of a session row that is in the store at the time of the insert.
C12_MessagesReferenceSessions ==
  [][ /\ DOMAIN sessions \subseteq DOMAIN sessions'
      /\ messages' # messages =>
           /\ Len(messages') = Len(messages) + 1
           /\ SubSeq(messages', 1, Len(messages)) = messages
           /\ messages'[Len(messages')].chat_id \in DOMAIN sessions ]_vars

\* two requests were handled at the same time with the same unknown chat
\* id: the session insert of one failed, and both stored their user message
\* under the session the other had created
C12_Witness ==
  \E r1, r2 \in Reqs :
    /\ r1 # r2 /\ ~sessErr[r1] /\ sessErr[r2]
    /\ body[r1].chatId = UnknownId /\ body[r2].chatId = UnknownId
    /\ UnknownId \in DOMAIN sessions
    /\ RowsBy(r1, "user") # {} /\ RowsBy(r2, "user") # {}
    /\ \A i \in 1..Len(messages) : messages[i].chat_id = UnknownId

----------------------------------------------------------------------------
\* request r has passed validation and its session resolution has returned
Resolved(r) ==
  /\ kind[r] # "none"
  /\ pc[r] \notin {"idle", "start", "rejected", "select", "sessInsert", "sessUpdate"}

\* C13 (as claimed): a request without chatId whose session resolution has
\* returned without error works under the id that the store generated for
\* a new session, whose title is the first 50 characters of the prompt.
C13_StoreGeneratedId ==
  \A r \in Reqs :
    (Resolved(r) /\ body[r].chatId = NoId /\ ~sessErr[r])
    => /\ chatId[r] = StoreUUID(r)
       /\ chatId[r] \in DOMAIN sessions
       /\ sessions[chatId[r]].title = Substring0(Prompt(r), TitleLen)

----------------------------------------------------------------------------
\* request r supplies a chat id that is not in the store before the
\* requests and that no other request supplies
SuppliesUnknownId(r) ==
  /\ kind[r] \in {"text", "image"} /\ body[r].chatId \notin {NoId, KnownId}
  /\ \A q \in Reqs \ {r} : kind[q] = "none" \/ body[q].chatId # body[r].chatId

----------------------------------------------------------------------------
\* C15: in every step every session row stays in the store with its title
\* and created_at; updated_at changes only in the update step of a request
\* that supplied the id of this session and found it, and then to the
\* current time; that step changes nothing else in the sessions table, and
\* sets updated_at to the current time unless the update returns an error.
C15_TouchOnlyUpdatedAt ==
  [][ /\ \A id \in DOMAIN sessions :
           /\ id \in DOMAIN sessions'
           /\ sessions'[id].title = sessions[id].title
           /\ sessions'[id].created_at = sessions[id].created_at
           /\ sessions'[id].updated_at # sessions[id].updated_at =>
                /\ sessions'[id].updated_at = now
                /\ \E r \in Reqs :
                     /\ pc[r] = "sessUpdate" /\ pc'[r] = "userInsert"
                     /\ body[r].chatId = id /\ chatId[r] = id
      /\ \A r \in Reqs :
           (pc[r] = "sessUpdate" /\ pc'[r] # "sessUpdate") =>
             /\ DOMAIN sessions' = DOMAIN sessions
             /\ \A id \in DOMAIN sessions \ {chatId[r]} : sessions'[id] = sessions[id]
             /\ ~sessErr'[r] => sessions'[chatId[r]].updated_at = now ]_vars

\* a session created by one request was found and touched by a later one
\* with another prompt: updated_at has moved on, the title is that of the
\* first prompt
C15_Witness ==
  \E r1, r2 \in Reqs :
    /\ r1 # r2 /\ Resolved(r1) /\ Resolved(r2)
    /\ body[r1].chatId = UnknownId /\ body[r2].chatId = UnknownId
    /\ UnknownId \in DOMAIN sessions
    /\ sessions[UnknownId].title = Substring0(Prompt(r1), TitleLen)
    /\ sessions[UnknownId].title # Substring0(Prompt(r2), TitleLen)
    /\ sessions[UnknownId].updated_at > sessions[UnknownId].created_at

----------------------------------------------------------------------------
\* C16 (as claimed): when the insert or the update of the session of a
\* request returns an error, the request goes on under another identifier
\* than the one of the failed operation.
C16_FreshIdAfterSessionError ==
  [][ \A r \in Reqs :
        (pc[r] \in {"sessInsert", "sessUpdate"} /\ sessErr'[r])
        => chatId'[r] # chatId[r] ]_vars

----------------------------------------------------------------------------
\* r2 is a /chat-text call sent after the response of the /chat-text call
\* r1 was complete, with the same chat id
SameChatPair(r1, r2) ==
  /\ kind[r1] = "text" /\ kind[r2] = "text"
  /\ after[r2] = r1
  /\ body[r1].chatId # NoId /\ body[r2].chatId = body[r1].chatId

\* the rows of the two calls: at most one user and one assistant message
\* each, all in the session of the common chat id, and no other session
\* created
PairRows(r1, r2) ==
  /\ DOMAIN sessions \subseteq {KnownId, body[r1].chatId}
  /\ \A i \in 1..Len(messages) : messages[i].chat_id = body[r1].chatId
  /\ \A r \in {r1, r2} :
       Cardinality(RowsBy(r, "user")) =< 1 /\ Cardinality(RowsBy(r, "assistant")) =< 1

\* the session resolution of request r returns in this step
ResolutionReturns(r) == pc[r] \in {"sessInsert", "sessUpdate"} /\ pc'[r] = "userInsert"

\* C17 (as claimed): when the second of two sequential calls with the same
\* chat id has completed, each call has one user message and at most one
\* assistant message in the one session of that id, and the session
\* resolution of the second call has left updated_at strictly greater.
C17_TwoCallsOneSession ==
  [][ \A r1, r2 \in Reqs :
        SameChatPair(r1, r2) =>
          /\ PairRows(r1, r2)'
          /\ pc'[r2] \in {"closed", "ended", "failed"} =>
               \A r \in {r1, r2} : Cardinality(RowsBy(r, "user"))' = 1
          /\ ResolutionReturns(r2) =>
               /\ body[r1].chatId \in DOMAIN sessions
               /\ sessions'[body[r1].chatId].updated_at > sessions[body[r1].chatId].updated_at
    ]_vars

\* C17 (amended): the same, with exactly one user message for each call
\* whose user message insert returned no error, and with updated_at
\* strictly greater when the session was in the store and the session
\* operation of the second call returned no error.
C17_SessionReuse ==
  [][ \A r1, r2 \in Reqs :
        SameChatPair(r1, r2) =>
          /\ PairRows(r1, r2)'
          /\ pc'[r2] \in {"closed", "ended", "failed"} =>
               \A r \in {r1, r2} : ~userErr'[r] => Cardinality(RowsBy(r, "user"))' = 1
          /\ (ResolutionReturns(r2) /\ body[r1].chatId \in DOMAIN sessions /\ ~sessErr'[r2]) =>
               sessions'[body[r1].chatId].updated_at > sessions[body[r1].chatId].updated_at
    ]_vars

\* two sequential calls with the same, at first unknown, chat id have
\* completed: two user and two assistant messages in the one session that
\* the first call created and the second touched
C17_Witness ==
  \E r1, r2 \in Reqs :
    /\ SameChatPair(r1, r2) /\ body[r1].chatId = UnknownId
    /\ pc[r1] = "closed" /\ pc[r2] = "closed"
    /\ DOMAIN sessions = {KnownId, UnknownId}
    /\ \A r \in {r1, r2} :
         Cardinality(RowsBy(r, "user")) = 1 /\ Cardinality(RowsBy(r, "assistant")) = 1
    /\ Len(messages) = 4
    /\ sessions[UnknownId].updated_at > sessions[UnknownId].created_at

----------------------------------------------------------------------------
\* what the [DONE] branch does to the response stream of request r
DoneOutcome(r, out) ==
  IF CanEnqueue(r)
  THEN /\ down'[r] = (down[r] \o out) \o <<DoneFrame>>
       /\ downState'[r] = "closed" /\ pc'[r] = "closed"
  ELSE /\ down'[r] = down[r] \o out
       /\ downState'[r] = Errored(r) /\ pc'[r] = "failed"

\* C18: a step that is a store operation of a request (session lookup,
\* insert or update, user message insert) leaves the response of the
\* request untouched and the handler goes on to the same next step under
\* the same chat id, whether or not the store changed; a read of the relay
\* enqueues the frames that the loop of the non-persisting relay enqueues
\* for the same chunk, the [DONE] frame and the close coming after the
\* assistant insert whether or not it stored a row; the /chat-image
\* response after the assistant insert is the success response with status
\* 200 whether or not it stored a row.
C18_StoreErrorsNotSurfaced ==
  [][ \A r \in Reqs :
        /\ (pc[r] \in {"select", "sessInsert", "sessUpdate", "userInsert"} /\ pc'[r] # pc[r]) =>
             /\ down'[r] = down[r] /\ downState'[r] = downState[r]
             /\ status'[r] = 0 /\ resp'[r] = NoResp
             /\ chatId'[r] = chatId[r]
             /\ pc'[r] \in {"sessInsert", "sessUpdate", "userInsert", "fetch", "generate"}
             /\ pc[r] = "userInsert" => pc'[r] = IF kind[r] = "text" THEN "fetch" ELSE "generate"
        /\ (pc[r] = "read" /\ upPos'[r] > upPos[r]) =>
             LET basic == BasicChunk(SubSeq(UpBytes(r), upPos[r] + 1, upPos'[r]), CanEnqueue(r))
             IN  /\ sawDone'[r] = basic.done
                 /\ IF ~basic.done
                    THEN /\ down'[r] = down[r] \o basic.out
                         /\ downState'[r] = downState[r] /\ pc'[r] = "read"
                    ELSE IF pc'[r] = "asstInsert"
                    THEN down'[r] = down[r] \o basic.out /\ downState'[r] = downState[r]
                    ELSE DoneOutcome(r, basic.out)
        /\ (pc[r] = "asstInsert" /\ pc'[r] # "asstInsert") => DoneOutcome(r, <<>>)
        /\ (pc[r] = "imageInsert" /\ pc'[r] # "imageInsert") =>
             /\ pc'[r] = "responded" /\ status'[r] = 200
             /\ resp'[r] = resp[r] /\ resp[r].success /\ resp[r].chatId = chatId[r]
    ]_vars

\* a relay has forwarded the whole upstream body and closed the stream with
\* status 200 although the session insert, the user message insert and the
\* assistant message insert all returned an error
C18_Witness ==
  \E r \in Reqs :
    /\ route[r] = "relay" /\ pc[r] = "closed" /\ status[r] = 200
    /\ sessErr[r] /\ userErr[r] /\ messages = <<>>
    /\ acc[r] = <<"a", "b">>
    /\ down[r] = <<ContentFrame(<<"a">>), ContentFrame(<<"b">>), DoneFrame>>

----------------------------------------------------------------------------
\* C19: a /chat-image request issues at most 3 upstream calls; when the
\* response reports a content-policy rejection, exactly 3 calls were made
\* (the preprocessed prompt, then the first and the second alternative
\* phrasing), the response is an error response with status 400 and
\* attemptsUsed 3, and no assistant message of the request is stored.  The
\* retries before it use the alternatives in order.
C19_PolicyRetryBound ==
  \A r \in Reqs :
    kind[r] = "image" =>
      /\ upCalls[r] =< 3 /\ attempt[r] = upCalls[r]
      /\ (pc[r] = "generate" /\ attempt[r] = 0) => tryPrompt[r] = PreprocessPrompt(Prompt(r))
      /\ (pc[r] = "generate" /\ attempt[r] > 0) =>
           tryPrompt[r] = AlternativePrompts(Prompt(r))[attempt[r]]
      /\ (pc[r] = "responded" /\ resp[r].error = <<"policy">>) =>
           /\ upCalls[r] = 3
           /\ tryPrompt[r] = AlternativePrompts(Prompt(r))[2]
           /\ ~resp[r].success /\ status[r] = 400 /\ resp[r].attemptsUsed = 3
           /\ RowsBy(r, "assistant") = {}

\* every attempt was rejected for content policy and the error response
\* was returned, the user message being stored
C19_Witness ==
  \E r \in Reqs :
    /\ kind[r] = "image" /\ pc[r] = "responded" /\ resp[r].error = <<"policy">>
    /\ upCalls[r] = 3 /\ RowsBy(r, "user") # {}

----------------------------------------------------------------------------
\* C20 (as claimed): when a /chat-image response with success: true has
\* been returned, exactly one assistant message of the request is stored,
\* in the request's session, with type image, the revised prompt of the
\* response as content and the image URL of the response as image_url.
C20_SuccessHasImageMessage ==
  \A r \in Reqs :
    (kind[r] = "image" /\ pc[r] = "responded" /\ resp[r].success)
    => /\ Cardinality(RowsBy(r, "assistant")) = 1
       /\ \A i \in RowsBy(r, "assistant") :
            /\ messages[i].chat_id = resp[r].chatId
            /\ messages[i].type = "image"
            /\ messages[i].content = resp[r].revisedPrompt
            /\ messages[i].image_url = resp[r].imageUrl

(***************************************************************************)
(* C21: a /chat-image request that ends in failure answers a structured    *)
(* error and leaves no assistant message                                   *)
(***************************************************************************)
\* the request of r went past validation and ended without an image
ImageFailed(r) ==
  /\ kind[r] = "image" /\ pc[r] = "responded"
  /\ status[r] # 200

\* C21: whenever a /chat-image request ends in failure (the retry bound is
\* exhausted, the image API answers a non-policy error or an empty data
\* array, the call itself fails), the response carries success: false with
\* an error and no assistant message of the request is in the store
C21_FailureIsStructuredAndUnpersisted ==
  \A r \in Reqs :
    ImageFailed(r) =>
      /\ resp[r].success = FALSE
      /\ resp[r].error # NoError
      /\ resp[r].imageUrl = <<>>
      /\ RowsBy(r, "assistant") = {}

\* a request whose third attempt was rejected by the content policy has
\* answered its error
C21_Witness ==
  \E r \in Reqs :
    /\ ImageFailed(r)
    /\ resp[r].error = <<"policy">> /\ attempt[r] = MaxAttempts
    /\ RowsBy(r, "user") # {}

(***************************************************************************)
(* C22: the answer to a request that fails validation                      *)
(***************************************************************************)
\* C22: every request rejected by the validation of /chat-text or of
\* /chat-image is answered with a 4xx status and the body
\* {success: false, error: <message>}
C22_ValidationFailureIs4xx ==
  \A r \in Reqs :
    pc[r] = "rejected" =>
      /\ status[r] \in 400..499
      /\ resp[r].success = FALSE
      /\ resp[r].error # NoError

(***************************************************************************)
(* C23: the 30 s timer of the completion call                              *)
(***************************************************************************)
\* a step driven by a timer: the 30 s timer of a pending completion call
\* (the call is answered, fails, or is aborted by the timer) and the 100 ms
\* timers between the words of a mock or fallback stream
TimerStep ==
  \E r \in Reqs : FetchOk(r) \/ FetchFail(r) \/ FetchTimeout(r) \/ EmitWord(r)

\* ENABLED <<TimerStep>>_vars
TimerPending == \E r \in Reqs : (pc[r] = "fetch" /\ hasKey) \/ pc[r] = "emit"

\* the timers fire: weak fairness of TimerStep, WF_vars(TimerStep), with
\* its ENABLED written as the state predicate TimerPending
SpecTimers == Spec /\ ([]<>~TimerPending \/ []<><<TimerStep>>_vars)

\* the handler of r waits for the completion call
FetchPending(r) == pc[r] = "fetch" /\ hasKey

\* the completion call of r was aborted by the timer
TimedOut(r) == openaiError[r] = AbortMessage

\* the response of a fallback stream is complete: every word of the
\* fallback text as a frame, then [DONE], and the stream is closed
FallbackComplete(r) ==
  /\ route[r] = "fallback" /\ status[r] = 200
  /\ pc[r] = "closed" /\ downState[r] = "closed"
  /\ down[r][Len(down[r])] = DoneFrame
  /\ Concat(ContentsOf(SubSeq(down[r], 1, Len(down[r]) - 1)))
       = FallbackResponse(openaiError[r], body[r].message) \o <<SP>>

\* C23: a pending completion call of /chat-text does not stay pending; a
\* call aborted by the timer is handled like a failed one, as a 200
\* response on the fallback route, whose frames and [DONE] are delivered
\* unless the client cancels or an enqueue fails
C23_TimeoutTakesFallback ==
  /\ \A r \in Reqs : FetchPending(r) ~> ~FetchPending(r)
  /\ \A r \in Reqs : [](TimedOut(r) => route[r] = "fallback" /\ status[r] = 200
                                         /\ pc[r] \in {"emit", "closed", "failed"})
  /\ \A r \in Reqs : TimedOut(r) ~> (FallbackComplete(r) \/ pc[r] = "failed"
                                      \/ downState[r] = "cancelled")

\* the fallback stream of an aborted call was delivered and closed
C23_Witness == \E r \in Reqs : TimedOut(r) /\ FallbackComplete(r)

(***************************************************************************)
(* C24: the relay as a strict pipeline                                     *)
(***************************************************************************)
\* the relay of r has issued a read of the upstream body and awaits it
ReadOutstanding(r) == route[r] = "relay" /\ pc[r] = "read"

\* C24: whenever a relay has a read of the upstream body outstanding, every
\* content delta decoded from the reads before it has been emitted
\* downstream, in order
C24_EmittedBeforeNextRead ==
  \A r \in Reqs :
    ReadOutstanding(r) => Concat(ContentsOf(down[r])) = acc[r]

(***************************************************************************)
(* C25: two concurrent relays                                              *)
(***************************************************************************)
\* the contents of the delta events of an upstream stream, in order
RECURSIVE DeltaContents(_)
DeltaContents(evs) ==
  IF evs = <<>> THEN <<>>
  ELSE IF Head(evs).kind = "delta"
  THEN <<Head(evs).content>> \o DeltaContents(Tail(evs))
  ELSE DeltaContents(Tail(evs))

\* the sequences made of elements of t in the order of t
RECURSIVE Subseqs(_)
Subseqs(t) ==
  IF t = <<>> THEN {<<>>}
  ELSE LET rest == Subseqs(Tail(t))
       IN  rest \cup {<<Head(t)>> \o q : q \in rest}

\* the variables of the handler run of request r
Locals(r) ==
  <<pc[r], chatId[r], userErr[r], sessErr[r], upPos[r], acc[r], down[r], downState[r],
    words[r], route[r], status[r], sawDone[r], openaiError[r], attempt[r], tryPrompt[r],
    resp[r], listing[r], upCalls[r], imageAnswers[r]>>

\* C25: in every state of two /chat-text requests, the content frames of
\* each relay and the content of its persisted assistant message are deltas
\* of its own upstream stream, in that stream's order; and every step
\* changes the variables of at most one handler run, the store being all
\* they share
C25_RelaysAreIsolated ==
  [][ /\ \A r \in Reqs :
           (kind[r] = "text" /\ route'[r] = "relay") =>
             /\ ContentsOf(down'[r]) \in Subseqs(DeltaContents(upEvents[r]))
             /\ \A i \in RowsBy(r, "assistant")' :
                  \E q \in Subseqs(DeltaContents(upEvents[r])) : messages'[i].content = Concat(q)
      /\ \E r \in Reqs : \A q \in Reqs \ {r} : Locals(q)' = Locals(q)
    ]_vars

\* two relays that overlapped have both closed: each persisted the delta of
\* its own stream, the second request before the first
C25_Witness ==
  /\ after[2] = -1
  /\ pc[1] = "closed" /\ pc[2] = "closed"
  /\ \E i \in RowsBy(2, "assistant"), j \in RowsBy(1, "assistant") :
       /\ i < j
       /\ messages[i].content = <<"b">> /\ messages[j].content = <<"a">>
  /\ ContentsOf(down[1]) = <<<<"a">>>> /\ ContentsOf(down[2]) = <<<<"b">>>>

(***************************************************************************)
(* C26: the store under the three handlers                                 *)
(***************************************************************************)
\* request r is a /get-chat-history request whose handler takes this step
HistoryStep(r) == kind[r] = "history" /\ pc[r] = "start" /\ pc'[r] # "start"

\* C26: in every step of /chat-text, /chat-image and /get-chat-history the
\* messages persisted before the step are still there, unmodified and in
\* their places, every session is still there with the same title and
\* created_at, and a step of /get-chat-history leaves both tables as they
\* were
C26_StoreAppendOnly ==
  [][ /\ Len(messages') >= Len(messages)
      /\ SubSeq(messages', 1, Len(messages)) = messages
      /\ \A id \in DOMAIN sessions :
           /\ id \in DOMAIN sessions'
           /\ sessions'[id] = [sessions[id] EXCEPT !.updated_at = sessions'[id].updated_at]
      /\ \A r \in Reqs : HistoryStep(r) => UNCHANGED storeVars
    ]_vars

\* on a store that held two sessions and three messages, a request has
\* added its messages to one of the sessions and touched it, and the
\* history of that session has been served: the three old messages and the
\* other session are as they were
C26_Witness ==
  /\ Finished(1) /\ kind[1] \in {"text", "image"}
  /\ kind[2] = "history" /\ pc[2] = "responded" /\ status[2] = 200
  /\ Len(messages) > 3
  /\ SubSeq(messages, 1, 3) = <<OldRow(KnownId, "user", <<"q">>), OldRow(OtherId, "user", <<"o">>),
                                OldRow(KnownId, "assistant", <<"r">>)>>
  /\ sessions[KnownId].updated_at > sessions[KnownId].created_at
  /\ sessions[KnownId].title = <<"o", "l", "d">>
  /\ sessions[OtherId] = NewSession(<<"o", "l", "d">>, 0)
  /\ Len(listing[2]) > 2

(***************************************************************************)
(* C27: what /get-chat-history returns                                     *)
(***************************************************************************)
\* how often row x occurs in the sequence q
Count(q, x) == Cardinality({k \in DOMAIN q : q[k] = x})

\* C27: the step in which /get-chat-history answers 200 returns, for a
\* chatId, every message that the store holds for that session once, no
\* other row, in ascending created_at order; without a chatId it returns
\* rows of distinct sessions of the store, as many as there are but at most
\* 50, in descending updated_at order, and no session left out was updated
\* more recently than a returned one
C27_HistoryListing ==
  [][ \A r \in Reqs :
        (HistoryStep(r) /\ status'[r] = 200) =>
          LET id == body[r].chatId
              q  == listing'[r]
          IN  IF id # NoId
              THEN /\ \A i \in DOMAIN messages :
                        messages[i].chat_id = id => Count(q, messages[i]) = Count(messages, messages[i])
                   /\ \A k \in DOMAIN q :
                        q[k].chat_id = id /\ \E i \in DOMAIN messages : messages[i] = q[k]
                   /\ \A k, l \in DOMAIN q : k < l => q[k].created_at =< q[l].created_at
              ELSE /\ Len(q) =< 50
                   /\ Len(q) = Min(Cardinality(DOMAIN sessions), 50)
                   /\ \A k \in DOMAIN q :
                        /\ q[k].id \in DOMAIN sessions
                        /\ q[k] = [id |-> q[k].id, title |-> sessions[q[k].id].title,
                                   created_at |-> sessions[q[k].id].created_at,
                                   updated_at |-> sessions[q[k].id].updated_at]
                   /\ \A k, l \in DOMAIN q :
                        k < l => q[k].id # q[l].id /\ q[k].updated_at >= q[l].updated_at
                   /\ \A x \in DOMAIN sessions \ {q[k].id : k \in DOMAIN q} :
                        \A k \in DOMAIN q : sessions[x].updated_at =< q[k].updated_at
    ]_vars

\* on a store of 51 sessions the history of one session has returned its
\* two messages, oldest first, and not the message of another session; the
\* listing has returned 50 sessions, the most recently updated first and
\* the least recently updated one left out
C27_Witness ==
  /\ kind[1] = "history" /\ status[1] = 200 /\ status[2] = 200
  /\ body[1].chatId = ManyId(ManySessions) /\ body[2].chatId = NoId
  /\ listing[1] = <<OldRow(ManyId(ManySessions), "user", <<"q">>),
                    OldRow(ManyId(ManySessions), "assistant", <<"r">>)>>
  /\ Len(messages) = 3
  /\ Len(listing[2]) = 50 /\ Cardinality(DOMAIN sessions) = 51
  /\ listing[2][1].id = ManyId(1)
  /\ \A k \in DOMAIN listing[2] : listing[2][k].id # ManyId(ManySessions)

(***************************************************************************)
(* C28: the prompts sent to the image API                                  *)
(***************************************************************************)
\* the words that the replacement table of preprocessPrompt replaces
FlaggedWords == {"kill", "die", "dead", "weapon", "gun", "violent", "fight"}

\* the words and the leading phrases that frame a prompt as art: the four
\* words preprocessPrompt looks for, its own framing and the framings of
\* generateAlternativePrompts
FramingWords ==
  {"art", "illustration", "drawing", "painting", "Digital illustration of",
   "Artistic rendering of", "Whimsical illustration showing",
   "Creative digital art depicting", "Cartoon-style image of", "Fantasy illustration of"}

Framed(prompt) == \E i \in DOMAIN prompt : prompt[i] \in FramingWords

Unflagged(prompt) == \A i \in DOMAIN prompt : prompt[i] \notin FlaggedWords

\* request r is about to send promptToTry to the image API
Sending(r) == kind[r] = "image" /\ hasKey /\ pc[r] = "generate"

\* C28 (as claimed): every prompt that /chat-image is about to send to the
\* image API, on the first attempt and on every retry, carries an art
\* framing and holds no word of the replacement table.
C28_SentPromptsPreprocessed ==
  \A r \in Reqs : Sending(r) => Framed(tryPrompt[r]) /\ Unflagged(tryPrompt[r])

(***************************************************************************)
(* C29: the chatId of the page                                             *)
(***************************************************************************)
\* the page submits request r in this step
SubmitStep(r) == ui.on /\ pc[r] = "idle" /\ pc'[r] = "start"

\* the requests that the page has submitted
Submitted == {r \in Reqs : ui.on /\ pc[r] # "idle"}

RECURSIVE BeforeDone(_)
BeforeDone(evs) ==
  IF evs = <<>> \/ Head(evs).kind = "done" THEN <<>>
  ELSE <<Head(evs)>> \o BeforeDone(Tail(evs))

\* the upstream body of request r holds a [DONE] line
HasDone(r) == \E i \in DOMAIN upEvents[r] : upEvents[r][i].kind = "done"

\* the number of symbols of the upstream body of request r up to the end of
\* the payload of its first [DONE] line
DoneLineEnd(r) ==
  Len(EncodeStream(BeforeDone(upEvents[r]))) + Len(DataPrefix) + Len(DoneToken)

\* the [DONE] frame is in q at most once, as its last frame
DoneOnceAndLast(q) == \A k \in DOMAIN q : q[k] = DoneFrame => k = Len(q)

\* C30 (as claimed): in every state of a relay the [DONE] frame is emitted
\* at most once and last; once the first [DONE] line of the upstream body
\* has been read no read is outstanding; the content frames and the
\* persisted assistant message hold deltas from before the first [DONE]
\* only; and there is at most one assistant message.
C30_DoneIsTerminal ==
  \A r \in Reqs :
    (kind[r] = "text" /\ route[r] = "relay") =>
      /\ DoneOnceAndLast(down[r])
      /\ (HasDone(r) /\ upPos[r] >= DoneLineEnd(r)) => pc[r] # "read"
      /\ ContentsOf(down[r]) \in Subseqs(DeltaContents(BeforeDone(upEvents[r])))
      /\ \A i \in RowsBy(r, "assistant") :
           \E q \in Subseqs(DeltaContents(BeforeDone(upEvents[r]))) : messages[i].content = Concat(q)
      /\ Cardinality(RowsBy(r, "assistant")) =< 1

(***************************************************************************)
(* C31: the rate limiter of /chat-image on its own: requests of two        *)
(* clients at the limiter, and the clock.                                  *)
(***************************************************************************)
\* how often the clock of the limiter runs advance
MaxRateTicks == 5

\* the clock advances by half a window
HalfWindow == RateLimitWindow \div 2

\* the variables of the handlers and of the page
handlerVars ==
  <<sessions, messages, hasKey, kind, body, pc, chatId, userErr, upEvents, upPos, acc, down,
    downState, words, route, status, attempt, tryPrompt, resp, upCalls, sawDone, sessErr,
    after, openaiError, listing, ui, upAnswer, imageAnswers>>

\* the isolate has started; no request is under way
InitRate ==
  /\ InitStore /\ InitLocals
  /\ ui = UiOff
  /\ hasKey = FALSE
  /\ kind = [r \in Reqs |-> "none"]
  /\ body = [r \in Reqs |-> [shape |-> "ok", message |-> <<>>, chatId |-> NoId]]
  /\ upEvents = [r \in Reqs |-> <<>>]
  /\ upAnswer = [r \in Reqs |-> OkAnswer]
  /\ after = [r \in Reqs |-> 0]
  /\ rateLimitMap = NoWindows

\* a POST of client c reaches the rate limiting check
RateRequest(c) ==
  /\ LET limiter == CheckRateLimit(rateLimitMap, c, now)
     IN  /\ rateLimitMap' = limiter.map
         /\ rateAnswer' = [client |-> c, ok |-> limiter.ok]
  /\ UNCHANGED <<handlerVars, now, proxy>>

\* time passes
RateTick ==
  /\ now + HalfWindow =< 1 + MaxRateTicks * HalfWindow
  /\ now' = now + HalfWindow
  /\ UNCHANGED <<handlerVars, rateVars, proxy>>

NextRate == (\E c \in Clients : RateRequest(c)) \/ RateTick

SpecRate == InitRate /\ [][NextRate]_vars

\* the step is a call of checkRateLimit (a refused call after a refused
\* call of the same client leaves the state as it is)
RateStep == rateLimitMap' # rateLimitMap \/ rateAnswer' # rateAnswer

\* C31: the stored count of every client is between 1 and 10; a call of
\* checkRateLimit for a client whose window is open with count 10 is
\* refused and leaves the map as it is; one whose window is open with a
\* smaller count is admitted and adds one to the count, the reset time
\* staying; one that arrives after the reset time, or is the first of the
\* client, is admitted and starts a window of 60 s with count 1; the
\* entries of the other clients stay as they are
C31_RateLimitWindow ==
  [][ /\ \A c \in DOMAIN rateLimitMap' :
           rateLimitMap'[c].count >= 1 /\ rateLimitMap'[c].count =< 10
      /\ RateStep =>
           LET c == rateAnswer'.client
           IN  /\ c \in DOMAIN rateLimitMap'
               /\ \A x \in DOMAIN rateLimitMap \ {c} :
                    x \in DOMAIN rateLimitMap' /\ rateLimitMap'[x] = rateLimitMap[x]
               /\ IF c \in DOMAIN rateLimitMap /\ now =< rateLimitMap[c].resetTime
                  THEN IF rateLimitMap[c].count >= 10
                       THEN ~rateAnswer'.ok /\ rateLimitMap' = rateLimitMap
                       ELSE /\ rateAnswer'.ok
                            /\ rateLimitMap'[c].count = rateLimitMap[c].count + 1
                            /\ rateLimitMap'[c].resetTime = rateLimitMap[c].resetTime
                  ELSE /\ rateAnswer'.ok
                       /\ rateLimitMap'[c] = [count |-> 1, resetTime |-> now + 60000]
    ]_vars

\* a client whose window is full is refused at the reset time of the
\* window, while the other client, whose first window has passed, is in a
\* new window with count 1
C31_Witness ==
  /\ rateAnswer = [client |-> "unknown", ok |-> FALSE]
  /\ rateLimitMap["unknown"] = [count |-> RateLimitMaxRequests, resetTime |-> now]
  /\ now = 1 + 3 * HalfWindow
  /\ "10.0.0.1" \in DOMAIN rateLimitMap
  /\ rateLimitMap["10.0.0.1"] = [count |-> 1, resetTime |-> now + RateLimitWindow]

(***************************************************************************)
(* C32: the upstream calls of attemptImageGeneration                       *)
(***************************************************************************)
\* the response of request r carries attemptsUsed (the mock response, the
\* response to an empty data array and those of the outer catch do not)
HasAttemptsUsed(r) == resp[r].attemptsUsed # 0

\* C32: every answer of the image API to a request but the last one was a
\* content_policy_violation; a request that has been answered makes no
\* further call; the number of calls is that of the answers and at most 3;
\* and attemptsUsed, where the response carries it, is the number of calls
\* made
C32_RetryOnlyAfterPolicy ==
  [][ \A r \in Reqs :
        kind[r] = "image" =>
          /\ upCalls'[r] = Len(imageAnswers'[r]) /\ upCalls'[r] =< 3
          /\ \A i \in 1..(Len(imageAnswers'[r]) - 1) : imageAnswers'[r][i] = "policy"
          /\ upCalls'[r] # upCalls[r] =>
               /\ upCalls'[r] = upCalls[r] + 1
               /\ pc[r] = "generate"
               /\ pc'[r] = "generate" <=> (imageAnswers'[r][upCalls'[r]] = "policy" /\ upCalls'[r] < 3)
          /\ (pc'[r] = "responded" /\ HasAttemptsUsed(r)') => resp'[r].attemptsUsed = upCalls'[r]
    ]_vars

\* after two content-policy rejections the third call has returned an
\* image: three calls, attemptsUsed 3
C32_Witness ==
  \E r \in Reqs :
    /\ kind[r] = "image" /\ pc[r] = "responded" /\ status[r] = 200
    /\ imageAnswers[r] = <<"policy", "policy", "image">>
    /\ upCalls[r] = 3 /\ resp[r].attemptsUsed = 3

(***************************************************************************)
(* C33: the failure class that the fallback message names                  *)
(***************************************************************************)
\* the first word of the userFriendlyMessage of each class
ClassWord(class) ==
  CASE class = "network" -> "Network"
    [] class = "timeout" -> "Request"
    [] class = "authentication" -> "API"
    [] OTHER -> "OpenAI"

\* the first word that the fallback stream of request r has emitted
FirstWord(r) == down[r][1].content[1]

\* C33 (as claimed): the fallback message of a failed completion call
\* starts with the text of the class of the failure, the class being the
\* first that matches in the order network (a DNS or lookup failure),
\* timeout (a timeout or the abort of the call), authentication (a 401
\* answer), generic (anything else).
C33_FallbackNamesFailureClass ==
  \A r \in Reqs :
    (route[r] = "fallback" /\ down[r] # <<>>) =>
      LET e == openaiError[r]
          class ==
            IF Includes(e, "dns error") \/ Includes(e, "failed to lookup address")
            THEN "network"
            ELSE IF Includes(e, "timeout") \/ e = AbortMessage THEN "timeout"
            ELSE IF Includes(e, "401") \/ Includes(e, "Unauthorized") THEN "authentication"
            ELSE "generic"
      IN  FirstWord(r) = ClassWord(class)

(***************************************************************************)
(* C34: requests rejected before processing                                *)
(***************************************************************************)
\* C34: a request is rejected (validation failure, or 429 of the rate
\* limiter) in the first step of its handler only, and that step leaves
\* sessions and messages as they are; a rejected request has made no
\* upstream call, has resolved no session, has no row in messages, and its
\* handler takes no further step
C34_RejectedHasNoEffect ==
  [][ \A r \in Reqs :
        /\ (pc[r] # "rejected" /\ pc'[r] = "rejected") =>
             /\ pc[r] = "start"
             /\ UNCHANGED storeVars
             /\ status'[r] \in {400, 405, 429, 500}
        /\ pc'[r] = "rejected" =>
             /\ upCalls'[r] = 0 /\ imageAnswers'[r] = <<>>
             /\ chatId'[r] = NoId
             /\ \A i \in DOMAIN messages' : messages'[i].by # r
        /\ pc[r] = "rejected" => Locals(r)' = Locals(r)
    ]_vars

\* a /chat-image request with a valid prompt and an unknown chatId was
\* answered 429: the store is as it was before the request
C34_Witness ==
  \E r \in Reqs :
    /\ kind[r] = "image" /\ pc[r] = "rejected" /\ status[r] = 429
    /\ ImageValidationError(body[r]) = NoError /\ body[r].chatId = UnknownId
    /\ hasKey
    /\ messages = <<>> /\ DOMAIN sessions = {KnownId}
    /\ upCalls[r] = 0

(***************************************************************************)
(* C35: the assistant insert and the [DONE] frame of a relay               *)
(***************************************************************************)
\* the client of request r can have read the [DONE] frame
DoneObservable(r) == \E k \in DOMAIN down[r] : down[r][k] = DoneFrame

\* C35: while the insert of the assistant message of a relay is awaited, or
\* a read is outstanding, the [DONE] frame has not been enqueued; the step
\* that enqueues it after accumulated content is the return of the insert,
\* which has added the assistant message unless the store refused it; and
\* a history of the session served when [DONE] is observable holds every
\* assistant message that the request has in the store
C35_InsertBeforeDone ==
  [][ \A r \in Reqs :
        (kind[r] = "text" /\ route'[r] = "relay") =>
          /\ DoneObservable(r)' => pc'[r] \notin {"asstInsert", "read"}
          /\ (DoneObservable(r)' /\ ~DoneObservable(r) /\ acc[r] # <<>>) =>
               /\ pc[r] = "asstInsert"
               /\ \/ messages' = messages
                  \/ /\ Len(messages') = Len(messages) + 1
                     /\ messages'[Len(messages')].by = r
                     /\ messages'[Len(messages')].role = "assistant"
                     /\ messages'[Len(messages')].content = acc[r]
          /\ \A q \in Reqs :
               (/\ HistoryStep(q) /\ status'[q] = 200 /\ body[q].chatId = chatId[r]
                /\ DoneObservable(r)) =>
                 \A i \in RowsBy(r, "assistant") : Count(listing'[q], messages[i]) = 1
    ]_vars

\* the relay has closed with [DONE] and its assistant message stored, and
\* the history of the session, served after that, holds the message
C35_Witness ==
  /\ kind[1] = "text" /\ route[1] = "relay" /\ pc[1] = "closed" /\ DoneObservable(1)
  /\ kind[2] = "history" /\ status[2] = 200 /\ body[2].chatId = chatId[1]
  /\ \E i \in RowsBy(1, "assistant") :
       /\ messages[i].content = <<"a">>
       /\ Count(listing[2], messages[i]) = 1
       /\ listing[2][Len(listing[2])] = messages[i]

(***************************************************************************)
(* C36: two concurrent requests with one unknown chatId                    *)
(***************************************************************************)
\* both requests were sent at once with the same chatId, unknown to the
\* store before them
ConcurrentUnknown ==
  /\ \A r \in Reqs : kind[r] \in {"text", "image"} /\ body[r].chatId = UnknownId
  /\ \A r \in Reqs : after[r] = 0
  /\ ui = UiOff

\* request r has a user message in the session of id
UserRowUnder(r, id) ==
  \E i \in RowsBy(r, "user") : messages[i].chat_id = id

\* C36 (as claimed): once both concurrent requests have resolved the
\* session and returned from the insert of their user message, the session
\* of the chatId exists and holds the user messages of both.
C36_BothPersisted ==
  (ConcurrentUnknown /\ \A r \in Reqs : Resolved(r) /\ pc[r] # "userInsert")
  => /\ UnknownId \in DOMAIN sessions
     /\ \A r \in Reqs : UserRowUnder(r, UnknownId)

\* C36 (amended): a session row, once in the store, is never replaced by
\* the insert of the other request; a request whose session insert returns
\* (with or without error) goes on to insert its user message and is not
\* answered with an error status; the user message of each request whose
\* insert returned no error is stored once under the chatId, in the session
\* that one of the two created; and no message of either request is stored
\* under another id.
C36_ConcurrentSameChat ==
  [][ ConcurrentUnknown =>
        /\ \A id \in DOMAIN sessions :
             /\ id \in DOMAIN sessions'
             /\ sessions'[id].title = sessions[id].title
             /\ sessions'[id].created_at = sessions[id].created_at
        /\ \A r \in Reqs :
             /\ (pc[r] = "sessInsert" /\ pc'[r] # pc[r]) =>
                  pc'[r] = "userInsert" /\ status'[r] = status[r]
             /\ pc'[r] # "rejected"
             /\ (Resolved(r)' /\ pc'[r] # "userInsert" /\ ~userErr'[r]) =>
                  /\ UnknownId \in DOMAIN sessions'
                  /\ sessions'[UnknownId].title \in {Title(Prompt(q)) : q \in Reqs}
                  /\ Cardinality(RowsBy(r, "user"))' = 1
                  /\ UserRowUnder(r, UnknownId)'
        /\ \A i \in 1..Len(messages') : messages'[i].chat_id = UnknownId
    ]_vars

\* both requests found no session and both inserted one: the insert of
\* request 2 was refused, the session has the title of request 1, and the
\* user messages of both are stored under it
C36_Witness ==
  /\ ConcurrentUnknown
  /\ \A r \in Reqs : Resolved(r) /\ pc[r] # "userInsert" /\ ~userErr[r]
  /\ ~sessErr[1] /\ sessErr[2]
  /\ sessions[UnknownId].title = Title(Prompt(1))
  /\ UserRowUnder(1, UnknownId) /\ UserRowUnder(2, UnknownId)
  /\ Cardinality(RowsBy(1, "user") \cup RowsBy(2, "user")) = 2

(***************************************************************************)
(* C37: isLoading of the page                                              *)
(***************************************************************************)
\* C37 (as claimed): isLoading is true only while a handleSubmit is under
\* way; once handleSubmit has returned, whatever the response was, the page
\* is not in the loading state (a submit is possible only when isLoading
\* is false, so a page left loading by a returned handleSubmit stays so).
C37_LoadingEnds ==
  (ui.on /\ ui.awaiting = 0) => ~ui.isLoading

(***************************************************************************)
(* The image proxy: GET ?url=... is answered with the image fetched from   *)
(* that URL.  A URL is a record of its scheme, the parts of its host name  *)
(* and the parts after the host; the string is the parts in a row, and a   *)
(* domain name is one part.                                                *)
(***************************************************************************)
\* requests served by the proxy in a behaviour
MaxProxyRequests == 3

\* allowedDomains
AllowedDomains ==
  {"oaidalleapiprodscus.blob.core.windows.net", "via.placeholder.com", "picsum.photos"}

\* the values of the url parameter
ProxyUrls ==
  { NoUrl,
    [scheme |-> "https://", host |-> <<"picsum.photos">>, rest |-> <<"/200">>],
    [scheme |-> "https://", host |-> <<"oaidalleapiprodscus.blob.core.windows.net">>,
     rest |-> <<"/img.png">>],
    [scheme |-> "https://", host |-> <<"evil.example">>, rest |-> <<"/img.png">>],
    [scheme |-> "https://", host |-> <<"evil.example">>, rest |-> <<"/", "picsum.photos">>],
    [scheme |-> "http://", host |-> <<"169.254.169.254">>,
     rest |-> <<"/latest/meta-data?x=", "via.placeholder.com">>],
    [scheme |-> "https://", host |-> <<"picsum.photos", ".evil.example">>, rest |-> <<"/">>],
    [scheme |-> "", host |-> <<"picsum.photos">>, rest |-> <<"/200">>] }

ProxyMethods == {"GET", "OPTIONS", "POST"}

\* imageUrl as a string
UrlString(u) == (IF u.scheme = "" THEN <<>> ELSE <<u.scheme>>) \o u.host \o u.rest

\* allowedDomains.some(domain => imageUrl.includes(domain))
IsAllowedUrl(imageUrl) == \E domain \in AllowedDomains : Includes(imageUrl, domain)

\* fetch() takes the string as an absolute URL
Absolute(u) == u.scheme # ""

\* a request reaches the proxy: preflight, method check, url parameter,
\* domain check; then the fetch is called
ProxyRequest(method, u) ==
  /\ proxy.pc \in {"idle", "done"} /\ proxy.served < MaxProxyRequests
  /\ LET answer == IF method = "OPTIONS" THEN 200
                   ELSE IF method # "GET" THEN 405
                   ELSE IF u = NoUrl THEN 400
                   ELSE IF ~IsAllowedUrl(UrlString(u)) THEN 400
                   ELSE 0
     IN  proxy' = [proxy EXCEPT !.pc = IF answer = 0 THEN "fetch" ELSE "done",
                                !.method = method, !.url = u, !.status = answer,
                                !.served = @ + 1]
  /\ UNCHANGED <<handlerVars, now, rateVars>>

\* fetch(imageUrl) and its result: a response that is ok or not, an abort
\* by the 10 s timer, or another rejection; a string that is no absolute
\* URL is rejected before any connection
ProxyFetch(result) ==
  /\ proxy.pc = "fetch"
  /\ IF ~Absolute(proxy.url)
     THEN proxy' = [proxy EXCEPT !.pc = "done", !.status = 502]
     ELSE proxy' = [proxy EXCEPT !.pc = "done",
                                 !.fetched = @ \cup {proxy.url.host},
                                 !.status = CASE result = "ok" -> 200
                                              [] result = "notok" -> 502
                                              [] result = "abort" -> 504
                                              [] OTHER -> 502]
  /\ UNCHANGED <<handlerVars, now, rateVars>>

NextProxy ==
  \/ \E method \in ProxyMethods, u \in ProxyUrls : ProxyRequest(method, u)
  \/ \E result \in {"ok", "notok", "abort", "throw"} : ProxyFetch(result)

SpecProxy == InitRate /\ [][NextProxy]_vars

\* C38 (as claimed): every host that the proxy's fetch has contacted is one
\* of the allowed domains, and a GET whose url has another host is
\* answered 400.
C38_FetchOnlyAllowedHosts ==
  /\ \A h \in proxy.fetched : \E domain \in AllowedDomains : h = <<domain>>
  /\ LET HostAllowed == \E domain \in AllowedDomains : proxy.url.host = <<domain>>
     IN  (proxy.pc = "done" /\ proxy.method = "GET" /\ proxy.url # NoUrl /\ ~HostAllowed)
         => proxy.status = 400

=============================================================================
